---- MODULE Spec2Model ----
(***************************************************************************)
(* A model of node-sylvester's Matrix class (src/matrix.ts).               *)
(*                                                                         *)
(* Numbers.  A JavaScript number is modelled as an exact rational <<n, d>> *)
(* in lowest terms with d > 0.  The three non-finite values keep d = 0:    *)
(* <<1, 0>> is Infinity, <<-1, 0>> is -Infinity and <<0, 0>> is NaN.  The  *)
(* value `undefined` (a read past the end of an array) is UNDEF and the    *)
(* accessors' null is NULL.  Rounding of IEEE doubles is not modelled:     *)
(* every statement below is about exact arithmetic.                        *)
(*                                                                         *)
(* Matrices.  Matrix.elements is a sequence of rows, each a sequence of    *)
(* numbers; indices are 1-based as in the public API.                      *)
(***************************************************************************)
EXTENDS Integers, Sequences, FiniteSets, TLC

VARIABLES M, b, pc, lu, svd, heap, mats, list, out

vars == <<M, b, pc, lu, svd, heap, mats, list, out>>

----------------------------------------------------------------------------
(* Bounds of the model.                                                    *)

\* Largest sum of |entry| over a whole input matrix of the LU specification.
MaxWeightLU == 6

\* Largest sum of |entry| over a whole input matrix of the elimination
\* specification (toRightTriangular, determinant, inverse).
MaxWeight == 4

\* Largest |entry| of the right-hand side b of solve().
MaxRhs == 2

\* The largest sum of absolute values of the entries of an input of the rank
\* specification.
MaxWeightRank == 3

\* The largest number of cells of an input that holds a Tiny entry.
MaxTinyCells == 4

\* Largest sum of |entry| over a triangular input of the substitution
\* specification, and over its right-hand side b.
MaxWeightTri == 4

MaxWeightRhs == 1

\* Largest sum of |entry| over an input of qr(), and over an input of svd().
MaxWeightQR == 4

MaxWeightSvd == 3

----------------------------------------------------------------------------
(* JavaScript numbers.                                                     *)

Abs(x) == IF x < 0 THEN -x ELSE x

Sgn(x) == IF x > 0 THEN 1 ELSE IF x < 0 THEN -1 ELSE 0

RECURSIVE GCD(_, _)
GCD(x, y) == IF y = 0 THEN x ELSE GCD(y, x % y)

NaN == <<0, 0>>

UNDEF == <<0, -1>>

\* The null that e(i, j) and Vector.e(i) return out of range.
NULL == <<0, -2>>

Zero == <<0, 1>>

One == <<1, 1>>

Num(i) == <<i, 1>>

\* n/d as a number in lowest terms; x/0 is +-Infinity, 0/0 is NaN.
Norm(n, d) ==
  IF d = 0 THEN <<Sgn(n), 0>>
  ELSE LET g == GCD(Abs(n), Abs(d))
           s == IF d < 0 THEN -1 ELSE 1
       IN  <<(s * n) \div g, (s * d) \div g>>

\* ToNumber: undefined becomes NaN and null becomes 0 in arithmetic.
ToNum(x) == IF x = UNDEF THEN NaN ELSE IF x = NULL THEN <<0, 1>> ELSE x

IsFinite(x) == x[2] > 0

Neg(x) == LET u == ToNum(x) IN <<-u[1], u[2]>>

Add(x, y) ==
  LET u == ToNum(x)
      v == ToNum(y)
  IN  IF u = NaN \/ v = NaN THEN NaN
      ELSE IF u[2] = 0 /\ v[2] = 0 THEN (IF u = v THEN u ELSE NaN)
      ELSE IF u[2] = 0 THEN u
      ELSE IF v[2] = 0 THEN v
      ELSE LET g == GCD(u[2], v[2])
           IN  Norm(u[1] * (v[2] \div g) + v[1] * (u[2] \div g),
                    (u[2] \div g) * v[2])

Sub(x, y) == Add(x, Neg(y))

Mul(x, y) ==
  LET u == ToNum(x)
      v == ToNum(y)
  IN  Norm(u[1] * v[1], u[2] * v[2])

Div(x, y) ==
  LET u == ToNum(x)
      v == ToNum(y)
  IN  IF u[2] = 0 /\ v[2] # 0
      THEN <<u[1] * (IF v[1] < 0 THEN -1 ELSE 1), 0>>
      ELSE Norm(u[1] * v[2], u[2] * v[1])

\* Math.abs
MathAbs(x) == LET u == ToNum(x) IN <<Abs(u[1]), u[2]>>

\* a/b > c/d for b, d > 0, by the integer parts and then the reciprocals of
\* the fractional parts, so that no product of the two denominators is
\* formed.
RECURSIVE GtRatio(_, _, _, _)
GtRatio(a, b1, c, d) ==
  LET qa == a \div b1
      qc == c \div d
      ra == a % b1
      rc == c % d
  IN  IF qa # qc THEN qa > qc
      ELSE IF ra = 0 THEN FALSE
      ELSE IF rc = 0 THEN TRUE
      ELSE GtRatio(d, rc, b1, ra)

\* x > y; false as soon as one side is NaN.
Gt(x, y) ==
  LET u == ToNum(x)
      v == ToNum(y)
  IN  IF u = NaN \/ v = NaN THEN FALSE
      ELSE IF u[2] = 0 THEN u[1] = 1 /\ u # v
      ELSE IF v[2] = 0 THEN v[1] = -1
      ELSE GtRatio(u[1], u[2], v[1], v[2])

\* x === y on numbers and undefined; NaN equals nothing.
StrictEq(x, y) == x # NaN /\ x = y

\* x < 0 ? -1 : 1
Sign(x) == IF Gt(Zero, x) THEN -1 ELSE 1

\* The largest r in lo..hi with r * r <= n.
RECURSIVE RootBetween(_, _, _)
RootBetween(n, lo, hi) ==
  IF lo >= hi THEN lo
  ELSE LET mid == (lo + hi + 1) \div 2
       IN  IF mid * mid <= n THEN RootBetween(n, mid, hi)
           ELSE RootBetween(n, lo, mid - 1)

\* The largest integer whose square is at most n (n >= 0).
IntRoot(n) == RootBetween(n, 0, IF n < 46340 THEN n ELSE 46340)

\* A square root that is not a ratio of integers: the numbers of the model
\* do not hold it.
Surd == <<0, -3>>

\* Math.sqrt: NaN for NaN and for negative numbers, Infinity for Infinity,
\* the root when it is rational.
Sqrt(x) ==
  IF x = NaN \/ x[1] < 0 THEN NaN
  ELSE IF x[2] = 0 THEN x
  ELSE LET rn == IntRoot(x[1])
           rd == IntRoot(x[2])
       IN  IF rn * rn = x[1] /\ rd * rd = x[2] THEN <<rn, rd>> ELSE Surd

----------------------------------------------------------------------------
(* Arrays and matrices.                                                    *)

\* A JavaScript array holds values: its elements are computed once, when
\* it is built, and kept as a tuple.
Array(f) == f \o <<>>

\* this.rows and this.cols as the constructor sets them.
Rows(m) == Len(m)

Cols(m) == IF Len(m) = 0 THEN 0 ELSE Len(m[1])

\* arr[i - 1] for a 1-based i: undefined outside the array.
Elem(row, j) == IF j >= 1 /\ j <= Len(row) THEN row[j] ELSE UNDEF

\* m[i - 1][j - 1] for an existing row i.
At(m, i, j) == Elem(m[i], j)

I(size) ==
  Array([y \in 1..size |->
           Array([x \in 1..size |-> IF x = y THEN One ELSE Zero])])

Fill(n, m, value) == Array([i \in 1..n |-> Array([j \in 1..m |-> value])])

ZeroMatrix(n, m) == Fill(n, m, Zero)

Transpose(m) ==
  Array([i \in 1..Cols(m) |-> Array([j \in 1..Rows(m) |-> m[j][i]])])

\* canMultiplyFromLeft: this.cols equals the argument's row count.
CanMultiplyFromLeft(m1, m2) == Len(m1[1]) = Len(m2)

\* The inner loop of mulOp: sum += op(rowThis[k], M[k][j]) for k = o-1 .. 0.
RECURSIVE DotFrom(_, _, _, _, _)
DotFrom(rowThis, m2, j, k, sum) ==
  IF k = 0 THEN sum
  ELSE DotFrom(rowThis, m2, j, k - 1, Add(sum, Mul(rowThis[k], m2[k][j])))

\* multiply / x with a matrix argument that passed canMultiplyFromLeft.
Multiply(m1, m2) ==
  Array([i \in 1..Len(m1) |->
           Array([j \in 1..Len(m2[1]) |->
                    DotFrom(m1[i], m2, j, Len(m1[1]), Zero)])])

\* new Matrix(vector).elements: a vector becomes a one-column matrix.
ColumnMatrix(v) == Array([i \in 1..Len(v) |-> <<v[i]>>])

\* col(1) of a matrix as a list.
Col1(m) == Array([i \in 1..Len(m) |-> m[i][1]])

\* multiply / x with a vector argument: the product's first column.
MultiplyVec(m1, v) == Col1(Multiply(m1, ColumnMatrix(v)))

\* e(i, j): null out of range.
E(m, i, j) ==
  IF i < 1 \/ i > Len(m) \/ j < 1 \/ j > Len(m[1]) THEN NULL ELSE m[i][j]

\* Vector.e(i): null out of range.
VecE(v, i) == IF i < 1 \/ i > Len(v) THEN NULL ELSE v[i]

\* row(i): the elements of row i, OutOfRangeError outside 1..rows.
Row(m, i) ==
  IF i < 1 \/ i > Len(m)
  THEN [err |-> "OutOfRangeError", val |-> <<>>]
  ELSE [err |-> "none", val |-> m[i]]

\* col(j): the guard reads this.elements[0].length, which throws a
\* TypeError on a matrix without rows once j < 1 has not settled it.
Col(m, j) ==
  IF j < 1 THEN [err |-> "OutOfRangeError", val |-> <<>>]
  ELSE IF Len(m) = 0 THEN [err |-> "TypeError", val |-> <<>>]
  ELSE IF j > Len(m[1]) THEN [err |-> "OutOfRangeError", val |-> <<>>]
  ELSE [err |-> "none", val |-> Array([i \in 1..Len(m) |-> m[i][j]])]

----------------------------------------------------------------------------
(* lu(): LU factorization with partial pivoting.                           *)

Min(x, y) == IF x < y THEN x ELSE y

\* The locals of lu() before its main loop.
LuInit(m) ==
  [A |-> m, L |-> I(Rows(m)), P |-> I(Rows(m)),
   U |-> ZeroMatrix(Rows(m), Cols(m)),
   k |-> 1, p |-> 1, maxIndex |-> 0, err |-> "none"]

\* The scan of partialPivot(k, j): i runs from k to rows.
RECURSIVE PivotScan(_, _, _, _, _, _)
PivotScan(A, k, j, i, maxIndex, maxValue) ==
  IF i > Len(A) THEN maxIndex
  ELSE IF Gt(MathAbs(A[i][j]), maxValue)
       THEN PivotScan(A, k, j, i + 1, i, MathAbs(A[k][j]))
       ELSE PivotScan(A, k, j, i + 1, maxIndex, maxValue)

\* partialPivot(k, p): swaps rows k and maxIndex of A and records the swap
\* in P.  With maxIndex = 0 the write to P[maxIndex - 1] is a write into
\* undefined, a TypeError.
PartialPivot(st) ==
  LET k == st.k
      maxIndex == PivotScan(st.A, k, st.p, k, 0, Zero)
  IN  IF maxIndex = k THEN [st EXCEPT !.maxIndex = maxIndex]
      ELSE IF maxIndex = 0
      THEN [st EXCEPT !.maxIndex = 0, !.err = "TypeError"]
      ELSE LET P1 == [st.P EXCEPT ![k][k] = Zero]
               P2 == [P1 EXCEPT ![k][maxIndex] = One]
               P3 == [P2 EXCEPT ![maxIndex][maxIndex] = Zero]
               P4 == [P3 EXCEPT ![maxIndex][k] = One]
           IN  [st EXCEPT !.maxIndex = maxIndex,
                          !.A = [st.A EXCEPT ![k] = st.A[maxIndex],
                                             ![maxIndex] = st.A[k]],
                          !.P = P4]

\* The rest of the loop body for step k: the multipliers go to column k of
\* L, rows below k are reduced, row k of A goes to U, p advances.
Eliminate(st) ==
  LET k == st.k
      p == st.p
      A == st.A
      rows == Len(A)
      cols == Len(A[1])
      l(i) == Div(A[i][p], A[k][p])
      A2 == Array([i \in 1..rows |->
                     IF i > k
                     THEN Array([j \in 1..cols |->
                                   IF j > k
                                   THEN Sub(A[i][j], Mul(A[k][j], l(i)))
                                   ELSE A[i][j]])
                     ELSE A[i]])
  IN  [st EXCEPT
         !.A = A2,
         !.L = Array([i \in 1..rows |->
                        IF i > k THEN [st.L[i] EXCEPT ![k] = l(i)]
                        ELSE st.L[i]]),
         !.U = [st.U EXCEPT
                  ![k] = Array([j \in 1..cols |->
                                  IF j >= k THEN A2[k][j] ELSE @[j]])],
         !.p = IF p < cols THEN p + 1 ELSE p,
         !.k = k + 1]

\* The main loop runs while k <= Math.min(cols, rows).
LuMore(st) == st.k <= Min(Len(st.A[1]), Len(st.A))

RECURSIVE LuLoop(_)
LuLoop(st) ==
  IF ~LuMore(st) THEN st
  ELSE LET piv == PartialPivot(st)
       IN  IF piv.err # "none" THEN piv ELSE LuLoop(Eliminate(piv))

\* lu() as a whole: {L, U, P}, or the error it throws.
Lu(m) ==
  LET st == LuLoop(LuInit(m))
  IN  [err |-> st.err, L |-> st.L, U |-> st.U, P |-> st.P]

----------------------------------------------------------------------------
(* forwardSubstitute, backSubstitute and solve.                            *)

\* w += this.e(i, j) * xa[j - 1] for j = 1 .. i-1.
RECURSIVE ForwardSum(_, _, _, _, _)
ForwardSum(m, xa, i, j, w) ==
  IF j >= i THEN w
  ELSE ForwardSum(m, xa, i, j + 1, Add(w, Mul(E(m, i, j), Elem(xa, j))))

\* ForwardLoop without the division by the diagonal entry.
RECURSIVE ForwardLoopUnit(_, _, _, _)
ForwardLoopUnit(m, v, i, xa) ==
  IF i > Rows(m) THEN xa
  ELSE ForwardLoopUnit(m, v, i + 1,
         Append(xa, Sub(VecE(v, i), ForwardSum(m, xa, i, 1, Zero))))

RECURSIVE ForwardLoop(_, _, _, _)
ForwardLoop(m, v, i, xa) ==
  IF i > Rows(m) THEN xa
  ELSE ForwardLoop(m, v, i + 1,
         Append(xa, Div(Sub(VecE(v, i), ForwardSum(m, xa, i, 1, Zero)),
                        E(m, i, i))))

ForwardSubstitute(m, v) == ForwardLoop(m, v, 1, <<>>)

\* w += this.e(i, j) * xa[this.rows - j] for j = cols .. i+1.
RECURSIVE BackSum(_, _, _, _, _)
BackSum(m, xa, i, j, w) ==
  IF j <= i THEN w
  ELSE BackSum(m, xa, i, j - 1,
         Add(w, Mul(E(m, i, j), Elem(xa, Rows(m) - j + 1))))

RECURSIVE BackLoop(_, _, _, _)
BackLoop(m, v, i, xa) ==
  IF i <= 0 THEN xa
  ELSE BackLoop(m, v, i - 1,
         Append(xa, Div(Sub(VecE(v, i), BackSum(m, xa, i, Cols(m), Zero)),
                        E(m, i, i))))

Reverse(s) == Array([i \in 1..Len(s) |-> s[Len(s) + 1 - i]])

\* backSubstitute(b) without the final reverse().
BackSubstituteUnreversed(m, v) == BackLoop(m, v, Rows(m), <<>>)

BackSubstitute(m, v) == Reverse(BackLoop(m, v, Rows(m), <<>>))

\* solve(b) returning x as backSubstitute gives it.
SolveUnpermuted(m, v) ==
  LET f == Lu(m)
  IN  IF f.err # "none" THEN [err |-> f.err, x |-> <<>>]
      ELSE LET y == ForwardSubstitute(f.L, MultiplyVec(f.P, v))
           IN  [err |-> "none", x |-> BackSubstitute(f.U, y)]

\* solve(b) for a b with as many elements as the matrix has rows.
Solve(m, v) ==
  LET f == Lu(m)
  IN  IF f.err # "none" THEN [err |-> f.err, x |-> <<>>]
      ELSE LET y == ForwardSubstitute(f.L, MultiplyVec(f.P, v))
               x == BackSubstitute(f.U, y)
           IN  [err |-> "none", x |-> MultiplyVec(f.P, x)]

----------------------------------------------------------------------------
(* toRightTriangular, determinant, augment and inverse.                    *)

\* isSquare(): elements.length === elements[0].length.
IsSquare(m) == Len(m) = Len(m[1])

\* The first row j >= from with m[j][i] !== 0, or 0 when the search ends.
\* FirstNonZeroBelow with the last such row in place of the first.
LastNonZeroBelow(m, i, from) ==
  LET S == {r \in from..Len(m) : ~StrictEq(At(m, r, i), Zero)}
  IN  IF S = {} THEN 0 ELSE CHOOSE r \in S : \A q \in S : q <= r
RECURSIVE FirstNonZeroBelow(_, _, _)
FirstNonZeroBelow(m, i, from) ==
  IF from > Len(m) THEN 0
  ELSE IF ~StrictEq(At(m, from, i), Zero) THEN from
  ELSE FirstNonZeroBelow(m, i, from + 1)

\* RepairPivot with the two rows exchanged instead of added.
RepairPivotSwap(m, i) ==
  LET j == FirstNonZeroBelow(m, i, i + 1)
  IN  IF j = 0 THEN m ELSE [m EXCEPT ![i] = m[j], ![j] = m[i]]

\* if (m[i][i] === 0): the first lower row with a non-zero entry in column
\* i is added to row i.
RepairPivot(m, i) ==
  LET j == FirstNonZeroBelow(m, i, i + 1)
  IN  IF j = 0 THEN m
      ELSE [m EXCEPT
              ![i] = Array([p \in 1..Len(m[1]) |-> Add(m[i][p], m[j][p])])]

\* ClearBelow with every column computed by subtraction, none set to 0.
ClearBelowUnforced(m, i) ==
  Array([j \in 1..Len(m) |->
           IF j > i
           THEN LET multiplier == Div(At(m, j, i), At(m, i, i))
                IN  Array([p \in 1..Len(m[1]) |->
                             Sub(m[j][p], Mul(Elem(m[i], p), multiplier))])
           ELSE m[j]])

\* if (m[i][i] !== 0): every lower row loses its multiple of row i, with
\* the columns up to i set straight to 0.
ClearBelow(m, i) ==
  Array([j \in 1..Len(m) |->
           IF j > i
           THEN LET multiplier == Div(At(m, j, i), At(m, i, i))
                IN  Array([p \in 1..Len(m[1]) |->
                             IF p <= i THEN Zero
                             ELSE Sub(m[j][p], Mul(m[i][p], multiplier))])
           ELSE m[j]])

\* One pass of the outer loop of toRightTriangular for row i.
TriStep(m, i) ==
  LET m1 == IF StrictEq(At(m, i, i), Zero) THEN RepairPivot(m, i) ELSE m
  IN  IF ~StrictEq(At(m1, i, i), Zero) THEN ClearBelow(m1, i) ELSE m1

RECURSIVE TriLoop(_, _)
TriLoop(m, i) == IF i > Len(m) THEN m ELSE TriLoop(TriStep(m, i), i + 1)

\* toRightTriangular() of a matrix with at least one row.
ToRightTriangular(m) == TriLoop(m, 1)

\* det *= M.elements[i][i] for i = 1 .. n-1, starting from M.elements[0][0].
RECURSIVE DiagProduct(_, _, _)
DiagProduct(m, i, det) ==
  IF i > Len(m) THEN det ELSE DiagProduct(m, i + 1, Mul(det, m[i][i]))

\* determinant(): the value, or the error thrown.  On a matrix without rows
\* isSquare() reads elements[0].length of undefined, a TypeError, before the
\* 0 x 0 case is looked at.
Determinant(m) ==
  IF Len(m) = 0 THEN [err |-> "TypeError", val |-> NaN]
  ELSE IF ~IsSquare(m)
  THEN [err |-> "DimensionalityMismatchError", val |-> NaN]
  ELSE IF Cols(m) = 0 /\ Rows(m) = 0 THEN [err |-> "none", val |-> One]
  ELSE LET T == ToRightTriangular(m)
       IN  [err |-> "none", val |-> DiagProduct(T, 2, T[1][1])]

\* augment(matrix) for a matrix with as many rows.
Augment(m, right) == Array([i \in 1..Len(m) |-> m[i] \o right[i]])

\* InverseLoop without the division of row i by its diagonal entry.
RECURSIVE InverseLoopUnnormalised(_, _, _, _)
InverseLoopUnnormalised(W, n, i, inv) ==
  IF i = 0 THEN inv
  ELSE LET np == Len(W[1])
           els == W[i]
           W2 == Array([j \in 1..Len(W) |->
                          IF j < i
                          THEN Array([p \in 1..np |->
                                        Sub(W[j][p], Mul(els[p], W[j][i]))])
                          ELSE W[j]])
       IN  InverseLoopUnnormalised(W2, n, i - 1,
             [inv EXCEPT ![i] = Array([q \in 1..n |-> els[n + q]])])

\* The loop of inverse() over the rows of the reduced augmented matrix W,
\* from row i up to row 1; inv collects the right-hand halves.
RECURSIVE InverseLoop(_, _, _, _)
InverseLoop(W, n, i, inv) ==
  IF i = 0 THEN inv
  ELSE LET np == Len(W[1])
           divisor == W[i][i]
           els == Array([p \in 1..np |-> Div(W[i][p], divisor)])
           W2 == Array([j \in 1..Len(W) |->
                          IF j = i THEN els
                          ELSE IF j < i
                          THEN Array([p \in 1..np |->
                                        Sub(W[j][p], Mul(els[p], W[j][i]))])
                          ELSE W[j]])
       IN  InverseLoop(W2, n, i - 1,
                       [inv EXCEPT ![i] = Array([q \in 1..n |-> els[n + q]])])

\* inverse() with one message for both rejections.
InverseOneMessage(m) ==
  IF Len(m) = 0 THEN [err |-> "TypeError", val |-> <<>>]
  ELSE IF ~IsSquare(m) \/ StrictEq(Determinant(m).val, Zero)
  THEN [err |-> "DimensionalityMismatchError: must be square", val |-> <<>>]
  ELSE LET n == Len(m)
           W == ToRightTriangular(Augment(m, I(n)))
       IN  [err |-> "none",
            val |-> InverseLoop(W, n, n, Array([i \in 1..n |-> <<>>]))]

\* inverse(): the inverse, or the error thrown.
Inverse(m) ==
  IF Len(m) = 0 THEN [err |-> "TypeError", val |-> <<>>]
  ELSE IF ~IsSquare(m)
  THEN [err |-> "DimensionalityMismatchError: must be square", val |-> <<>>]
  ELSE IF StrictEq(Determinant(m).val, Zero)
  THEN [err |-> "DimensionalityMismatchError: determinant=0", val |-> <<>>]
  ELSE LET n == Len(m)
           W == ToRightTriangular(Augment(m, I(n)))
       IN  [err |-> "none",
            val |-> InverseLoop(W, n, n, Array([i \in 1..n |-> <<>>]))]

\* diagonal(): the diagonal elements, or the error thrown; isSquare() on a
\* matrix without rows is a TypeError.
Diagonal(m) ==
  IF Len(m) = 0 THEN [err |-> "TypeError", val |-> <<>>]
  ELSE IF ~IsSquare(m)
  THEN [err |-> "DimensionalityMismatchError", val |-> <<>>]
  ELSE [err |-> "none", val |-> Array([i \in 1..Len(m) |-> m[i][i]])]

\* tr += this.elements[i][i] for i = 1 .. n-1, starting from elements[0][0].
RECURSIVE TraceSum(_, _, _)
TraceSum(m, i, tr) ==
  IF i > Len(m) THEN tr ELSE TraceSum(m, i + 1, Add(tr, At(m, i, i)))

\* trace() without the isSquare() test.
TraceUnchecked(m) ==
  IF Len(m) = 0 THEN [err |-> "TypeError", val |-> NaN]
  ELSE [err |-> "none", val |-> TraceSum(m, 2, At(m, 1, 1))]

\* trace(): the value, or the error thrown.
Trace(m) ==
  IF Len(m) = 0 THEN [err |-> "TypeError", val |-> NaN]
  ELSE IF ~IsSquare(m)
  THEN [err |-> "DimensionalityMismatchError", val |-> NaN]
  ELSE [err |-> "none", val |-> TraceSum(m, 2, m[1][1])]

\* Sylvester.precision, the default epsilon of rank(): 1e-6.
Precision == <<1, 1000000>>

\* The inner loop of rank(): some entry of row i of the triangular form is
\* larger than epsilon in absolute value.
RowCounts(T, i, epsilon) ==
  \E j \in 1..Len(T[i]) : Gt(MathAbs(T[i][j]), epsilon)

\* rank(epsilon) with the rows counted on the matrix itself, not on its
\* right-triangular form.
RankUnreduced(m, epsilon) ==
  IF Len(m) = 0 THEN [err |-> "TypeError", val |-> 0]
  ELSE [err |-> "none",
        val |-> Cardinality({i \in 1..Len(m) : RowCounts(m, i, epsilon)})]

\* rank(epsilon): the number of rows of toRightTriangular() with an entry
\* larger than epsilon in absolute value.
Rank(m, epsilon) ==
  IF Len(m) = 0 THEN [err |-> "TypeError", val |-> 0]
  ELSE LET T == ToRightTriangular(m)
       IN  [err |-> "none",
            val |-> Cardinality({i \in 1..Len(m) : RowCounts(T, i, epsilon)})]

----------------------------------------------------------------------------
(* qr() and svd().                                                         *)

\* slice(startRow, endRow, startCol, endCol); an end of 0 is the last row
\* or column.
Slice(m, startRow, endRow, startCol, endCol) ==
  LET er == IF endRow = 0 THEN Rows(m) ELSE endRow
      ec == IF endCol = 0 THEN Cols(m) ELSE endCol
      r0 == IF startRow > 1 THEN startRow ELSE 1
      c0 == IF startCol > 1 THEN startCol ELSE 1
  IN  Array([i \in 1..(IF er >= r0 THEN er - r0 + 1 ELSE 0) |->
               Array([j \in 1..(IF ec >= c0 THEN ec - c0 + 1 ELSE 0) |->
                        E(m, r0 + i - 1, c0 + j - 1)])])

\* vectorMagnitude: sum += elements[i] * elements[i], then Math.sqrt(sum).
RECURSIVE SumSquares(_, _, _)
SumSquares(v, i, sum) ==
  IF i > Len(v) THEN sum ELSE SumSquares(v, i + 1, Add(sum, Mul(v[i], v[i])))

Magnitude(v) == Sqrt(SumSquares(v, 1, Zero))

\* map((x) => op(x, number)) for the scalar forms of x and div.
ScalarMultiply(m, c) ==
  Array([i \in 1..Len(m) |-> Array([j \in 1..Len(m[1]) |-> Mul(m[i][j], c)])])

ScalarDiv(m, c) ==
  Array([i \in 1..Len(m) |-> Array([j \in 1..Len(m[1]) |-> Div(m[i][j], c)])])

\* subtract(matrix) for a matrix of the same size.
Subtract(m1, m2) ==
  Array([i \in 1..Len(m1) |->
           Array([j \in 1..Len(m1[1]) |-> Sub(m1[i][j], m2[i][j])])])

\* identSize(e, m, n, k): k - 1 rows of n columns with a 1 in column i are
\* put in front of the rows of e, and every row of e shorter than n gets
\* leading 0s up to n columns.
IdentSize(e, m, n, k) ==
  Array([i \in 1..(k - 1) |-> Array([j \in 1..n |-> IF j = i THEN One ELSE Zero])])
  \o Array([i \in 1..Len(e) |->
              IF Len(e[i]) < n
              THEN Array([j \in 1..(n - Len(e[i])) |-> Zero]) \o e[i]
              ELSE e[i]])

\* vk = ak + e1 x (|ak| x sign(ak[1])), e1 being [1, 0, ..., 0].
ReflectionVector(ak, mag) ==
  Array([i \in 1..Len(ak) |->
           Add(ak[i],
               Mul(IF i = 1 THEN One ELSE Zero,
                   Mul(mag, Num(Sign(VecE(ak, 1))))))])

\* Hk = I - (Vk x 2 x Vk') / (Vk' x Vk).e(1, 1), Vk being the column vk.
Householder(vk) ==
  Subtract(I(Len(vk)),
           ScalarDiv(Multiply(ScalarMultiply(ColumnMatrix(vk), Num(2)),
                              Transpose(ColumnMatrix(vk))),
                     E(Multiply(Transpose(ColumnMatrix(vk)), ColumnMatrix(vk)),
                       1, 1)))

\* A = Qk.x(A) and Q = Q.x(Qk); x throws when Qk has not as many columns
\* as A has rows.
QrApply(st, Qk) ==
  IF ~CanMultiplyFromLeft(Qk, st.A)
  THEN [st EXCEPT !.err = "DimensionalityMismatchError"]
  ELSE [st EXCEPT !.A = Multiply(Qk, st.A),
                  !.Q = Multiply(st.Q, Qk),
                  !.k = st.k + 1]

\* The pass for the part ak of column k, of magnitude mag.  It ends in
\* "surd" when the magnitude is not a number of the model.
QrReflect(st, m, n, ak, mag) ==
  IF mag = Surd THEN [st EXCEPT !.err = "surd"]
  ELSE QrApply(st, IdentSize(Householder(ReflectionVector(ak, mag)), m, n, st.k))

QrColumn(st, m, n, ak) == QrReflect(st, m, n, ak, Magnitude(ak))

\* One pass of the loop of qr() for column k of an m x n matrix.
QrStep(st, m, n) == QrColumn(st, m, n, Col1(Slice(st.A, st.k, 0, st.k, st.k)))

\* for (let k = 1; k < Math.min(m, n); k++)
RECURSIVE QrLoop(_, _, _)
QrLoop(st, m, n) ==
  IF st.err # "none" \/ st.k >= Min(m, n) THEN st
  ELSE QrLoop(QrStep(st, m, n), m, n)

\* qr() of a matrix with at least one row: Q and R, or the error thrown.
Qr(m) ==
  LET st == QrLoop([Q |-> I(Rows(m)), A |-> m, k |-> 1, err |-> "none"],
                   Rows(m), Cols(m))
  IN  [err |-> st.err, Q |-> st.Q, R |-> st.A]

\* triu(k): the entries with j - i >= k, 0 elsewhere.
Triu(m, k) ==
  Array([i \in 1..Len(m) |->
           Array([j \in 1..Len(m[1]) |-> IF j - i >= k THEN m[i][j] ELSE Zero])])

\* unroll(): the columns one after the other.
Unroll(m) ==
  Array([p \in 1..(Rows(m) * Cols(m)) |->
           E(m, ((p - 1) % Rows(m)) + 1, ((p - 1) \div Rows(m)) + 1)])

\* Matrix.Diagonal(elements)
DiagonalMatrix(v) ==
  Array([y \in 1..Len(v) |->
           Array([x \in 1..Len(v) |-> IF x = y THEN v[x] ELSE Zero])])

\* maxLoop of svd().
MaxLoop == 100

\* err > 2.2737e-13.  A positive number of the model is a ratio of two
\* integers below 2^31, and so larger than 2.2737e-13.
AboveThreshold(err) == Gt(err, Zero)

\* The locals of svd() before its loop.  err starts at Number.MAX_VALUE,
\* held here as Infinity: it is only ever compared with the threshold.
SvdInit(m) ==
  [U |-> I(Cols(m)), S |-> Transpose(m), V |-> I(Rows(m)),
   err |-> <<1, 0>>, i |-> 0, exact |-> TRUE, thrown |-> "none"]

\* The locals when a magnitude of this pass is not a number of the model:
\* U, S, V and err are then not known to it.
SvdInexact(st) == [st EXCEPT !.exact = FALSE, !.i = st.i + 1]

\* The end of a pass: e and f0 are the magnitudes of S.triu(1).unroll()
\* and of S.diagonal(); err = e / f, with f = 1 when f0 === 0.
SvdErr(st, qr1, qr2, e, f0) ==
  IF e = Surd \/ f0 = Surd THEN SvdInexact(st)
  ELSE [U |-> Multiply(st.U, qr2.Q), S |-> qr2.R, V |-> Multiply(st.V, qr1.Q),
        err |-> Div(e, IF StrictEq(f0, Zero) THEN One ELSE f0),
        i |-> st.i + 1, exact |-> TRUE, thrown |-> "none"]

\* The pass after its second qr().
SvdSecond(st, qr1, qr2) ==
  IF qr2.err = "surd" THEN SvdInexact(st)
  ELSE IF qr2.err # "none" THEN [st EXCEPT !.thrown = qr2.err]
  ELSE SvdErr(st, qr1, qr2, Magnitude(Unroll(Triu(qr2.R, 1))),
              Magnitude(Diagonal(qr2.R).val))

\* The pass after its first qr().
SvdFirst(st, qr1) ==
  IF qr1.err = "surd" THEN SvdInexact(st)
  ELSE IF qr1.err # "none" THEN [st EXCEPT !.thrown = qr1.err]
  ELSE SvdSecond(st, qr1, Qr(Transpose(qr1.R)))

\* One pass of the loop of svd().
SvdStep(st) == SvdFirst(st, Qr(Transpose(st.S)))

\* The loop test with i <= maxLoop.
SvdMoreInclusive(st) == AboveThreshold(st.err) /\ st.i <= MaxLoop

\* while (err > 2.2737e-13 && i < maxLoop)
SvdMore(st) == AboveThreshold(st.err) /\ st.i < MaxLoop

\* The code after the loop of svd(): the absolute values of the diagonal
\* of S, and column i of V negated where the diagonal entry is negative.
SvdResult(st) ==
  LET ss == Diagonal(st.S).val
  IN  [U |-> st.U,
       S |-> DiagonalMatrix(Array([i \in 1..Len(ss) |-> MathAbs(ss[i])])),
       V |-> Array([j \in 1..Len(st.V) |->
                      Array([i \in 1..Len(st.V[j]) |->
                               IF i <= Len(ss) /\ Gt(Zero, ss[i]) /\ j <= Rows(st.U)
                               THEN Neg(st.V[j][i])
                               ELSE st.V[j][i]])])]

----------------------------------------------------------------------------
(* Arrays on the heap.  A Matrix holds a reference to an outer array whose *)
(* entries are references to row arrays; two Matrix objects may hold the   *)
(* same arrays.  heap.rows and heap.outers give the content of every row   *)
(* array and outer array allocated so far, a reference being the position  *)
(* in the sequence.  Arrays that a method builds and never writes after    *)
(* they are complete are allocated only when a Matrix keeps them.          *)

\* The number[][] value held at the outer array o.
Grid(h, o) == Array([i \in 1..Len(h.outers[o]) |-> h.rows[h.outers[o][i]]])

\* A new number[][] with the value m: one new row array per row, and a new
\* outer array (els = []; els[i] = []; els[i][j] = ..., or push).
AllocGrid(h, m) ==
  [heap |-> [rows |-> h.rows \o m,
             outers |-> Append(h.outers,
                               Array([i \in 1..Len(m) |-> Len(h.rows) + i]))],
   at |-> Len(h.outers) + 1]

\* toArray() without the slice() of each row: a new outer array holding
\* the rows of the matrix themselves.
ToArrayShallow(h, o) ==
  [heap |-> [h EXCEPT !.outers = Append(@, h.outers[o])],
   at |-> Len(h.outers) + 1]

\* toArray(): matrixRows.push(this.elements[i].slice()) for every row.
ToArray(h, o) == AllocGrid(h, Grid(h, o))

\* takeOwnership(matrix): the elements array of the matrix itself.
TakeOwnership(o) == o

\* The positions of the outer array o that hold the row array a.
Positions(h, o, a) == {i \in 1..Len(h.outers[o]) : h.outers[o][i] = a}

\* Writes into the row arrays of o in place (T[i][j] = ..., A[i][j] -= ...,
\* els[j][i] = -els[j][i]): afterwards row i of o holds m[i], and so does
\* every other array that holds the same row.
WriteRows(h, o, m) ==
  [h EXCEPT !.rows =
     Array([a \in 1..Len(h.rows) |->
              IF Positions(h, o, a) # {}
              THEN m[CHOOSE i \in Positions(h, o, a) : TRUE]
              ELSE h.rows[a]])]

\* Writes into the outer array o (m[i] = els): every row whose value
\* changes becomes a new row array, the row array it was is left as it is.
ReplaceRows(h, o, m) ==
  [rows |-> h.rows \o m,
   outers |-> [h.outers EXCEPT ![o] =
                 Array([i \in 1..Len(m) |->
                          IF m[i] = h.rows[h.outers[o][i]]
                          THEN h.outers[o][i]
                          ELSE Len(h.rows) + i])]]

\* new Matrix(els) for the outer array at o: elements is that array, rows
\* and cols are read from it; was keeps the value the matrix is built with.
NewMatrix(h, o) ==
  [elements |-> o, rows |-> Rows(Grid(h, o)), cols |-> Cols(Grid(h, o)),
   was |-> Grid(h, o)]

\* map, mulOp, transpose, slice, Matrix.I, Matrix.Zero: a new array with
\* the value m, handed to new Matrix.
FreshMatrix(h, m) ==
  [heap |-> AllocGrid(h, m).heap, at |-> AllocGrid(h, m).at, err |-> "none"]

\* A method that throws with the heap h and returns nothing.
Thrown(h, e) == [heap |-> h, at |-> 0, err |-> e]

\* toRightTriangular(): the rows of the copy m are replaced, never written.
ToRightTriangularOnHeap(h, o) ==
  [heap |-> ReplaceRows(ToArray(h, o).heap, ToArray(h, o).at,
                        ToRightTriangular(Grid(h, o))),
   at |-> ToArray(h, o).at,
   err |-> "none"]

\* augment(matrix): T = this.toArray() is made before the row counts are
\* compared, and the rows of T are then extended in place.
AugmentOnHeap(h, o, right) ==
  IF Len(h.outers[o]) # Len(h.outers[right])
  THEN Thrown(ToArray(h, o).heap, "DimensionalityMismatchError")
  ELSE [heap |-> WriteRows(ToArray(h, o).heap, ToArray(h, o).at,
                           Augment(Grid(h, o), Grid(h, right))),
        at |-> ToArray(h, o).at,
        err |-> "none"]

\* The loop of inverse() on M = takeOwnership(tri): M[i] = els and
\* M[j] = els leave the identity on the left and the inverse inv on the
\* right, and inverseElements becomes the result.
InverseRowsOnHeap(tri, n, inv) ==
  FreshMatrix(ReplaceRows(tri.heap, TakeOwnership(tri.at), Augment(I(n), inv)),
              inv)

\* inverse() of a non-singular matrix, after isSingular() has made and
\* dropped a triangular form: h is the heap with Matrix.I(n) at ident.
InverseFromIdentity(h, o, ident) ==
  InverseRowsOnHeap(
    ToRightTriangularOnHeap(AugmentOnHeap(h, o, ident).heap,
                            AugmentOnHeap(h, o, ident).at),
    Len(h.outers[o]),
    Inverse(Grid(h, o)).val)

\* inverse().
InverseOnHeap(h, o) ==
  IF ~IsSquare(Grid(h, o))
  THEN Thrown(h, "DimensionalityMismatchError")
  ELSE IF Inverse(Grid(h, o)).err # "none"
  THEN Thrown(ToRightTriangularOnHeap(h, o).heap, "DimensionalityMismatchError")
  ELSE InverseFromIdentity(
         FreshMatrix(ToRightTriangularOnHeap(h, o).heap, I(Len(h.outers[o]))).heap,
         o,
         FreshMatrix(ToRightTriangularOnHeap(h, o).heap, I(Len(h.outers[o]))).at)

\* lu(): A = this.toArray() is written in place and dropped (which of its
\* rows ends with which value is not kept here); L, U and P are copies of
\* new matrices, written in place and handed to new Matrix when lu()
\* returns.  st is the state of the locals when the loop ends or throws.
LuArraysOnHeap(h, o, st) ==
  IF st.err # "none"
  THEN [heap |-> WriteRows(ToArray(h, o).heap, ToArray(h, o).at, st.A),
        L |-> 0, U |-> 0, P |-> 0, err |-> st.err]
  ELSE [heap |-> AllocGrid(AllocGrid(AllocGrid(
                   WriteRows(ToArray(h, o).heap, ToArray(h, o).at, st.A),
                   st.L).heap, st.U).heap, st.P).heap,
        L |-> Len(h.outers) + 2, U |-> Len(h.outers) + 3,
        P |-> Len(h.outers) + 4, err |-> "none"]

LuOnHeap(h, o) == LuArraysOnHeap(h, o, LuLoop(LuInit(Grid(h, o))))

----------------------------------------------------------------------------
\* e.unshift(row), once for each row of rs: the new row arrays rs come in
\* front of the rows the outer array o holds.
Unshift(h, o, rs) ==
  [rows |-> h.rows \o rs,
   outers |-> [h.outers EXCEPT ![o] =
                 Array([i \in 1..Len(rs) |-> Len(h.rows) + i]) \o @]]

\* identSize(e, m, n, k) on the arrays of e: e[i].unshift(0) writes the
\* rows of e in place, e.unshift(row) writes the outer array; afterwards e
\* holds the value v.
IdentSizeInPlace(h, e, k, v) ==
  Unshift(WriteRows(h, e, SubSeq(v, k, Len(v))), e, SubSeq(v, 1, k - 1))

IdentSizeOnHeap(h, e, m, n, k) ==
  IdentSizeInPlace(h, e, k, IdentSize(Grid(h, e), m, n, k))

\* A = Qk.x(A) and Q = Q.x(Qk) for Qk = new Matrix(e), e being the outer
\* array at qk on the heap h.
QrProductsOnHeap(st, h, qk) ==
  IF ~CanMultiplyFromLeft(Grid(h, qk), Grid(h, st.A))
  THEN [st EXCEPT !.heap = h, !.err = "DimensionalityMismatchError"]
  ELSE [heap |-> AllocGrid(AllocGrid(h, Multiply(Grid(h, qk), Grid(h, st.A))).heap,
                           Multiply(Grid(h, st.Q), Grid(h, qk))).heap,
        A |-> Len(h.outers) + 1,
        Q |-> Len(h.outers) + 2,
        k |-> st.k + 1,
        err |-> "none"]

\* Qk = identSize(takeOwnership(Hk), m, n, k) for the new matrix Hk at hk.
QrEmbedOnHeap(st, m, n, hk) ==
  QrProductsOnHeap(st,
                   IdentSizeOnHeap(hk.heap, TakeOwnership(hk.at), m, n, st.k),
                   hk.at)

QrReflectOnHeap(st, m, n, ak, mag) ==
  IF mag = Surd THEN [st EXCEPT !.err = "surd"]
  ELSE QrEmbedOnHeap(st, m, n,
                     FreshMatrix(st.heap, Householder(ReflectionVector(ak, mag))))

QrColumnOnHeap(st, m, n, ak) == QrReflectOnHeap(st, m, n, ak, Magnitude(ak))

\* One pass of the loop of qr(); A and Q are references.
QrStepOnHeap(st, m, n) ==
  QrColumnOnHeap(st, m, n, Col1(Slice(Grid(st.heap, st.A), st.k, 0, st.k, st.k)))

RECURSIVE QrLoopOnHeap(_, _, _)
QrLoopOnHeap(st, m, n) ==
  IF st.err # "none" \/ st.k >= Min(m, n) THEN st
  ELSE QrLoopOnHeap(QrStepOnHeap(st, m, n), m, n)

\* qr(): Q = Matrix.I(m) and A = this before the loop; the R returned is A,
\* the receiver itself when the loop has no pass.
QrOnHeap(h, o) ==
  QrLoopOnHeap([heap |-> FreshMatrix(h, I(Len(h.outers[o]))).heap,
                A |-> o,
                Q |-> Len(h.outers) + 1,
                k |-> 1,
                err |-> "none"],
               Rows(Grid(h, o)), Cols(Grid(h, o)))

\* svd() throws e from the pass that was running on the heap h.
SvdThrown(st, h, e) == [st EXCEPT !.heap = h, !.thrown = e]

\* The end of a pass: err = e / f.
SvdErrOnHeap(st, vAt, sAt, u, e, f0) ==
  IF e = Surd \/ f0 = Surd THEN SvdThrown(st, u.heap, "surd")
  ELSE [heap |-> u.heap, U |-> u.at, S |-> sAt, V |-> vAt,
        err |-> Div(e, IF StrictEq(f0, Zero) THEN One ELSE f0),
        i |-> st.i + 1, thrown |-> "none"]

\* e = S.triu(1).unroll().magnitude() and f = S.diagonal().magnitude(),
\* diagonal() throwing when S is not square.
SvdMeasureOnHeap(st, vAt, sAt, u) ==
  IF Diagonal(Grid(u.heap, sAt)).err # "none"
  THEN SvdThrown(st, u.heap, Diagonal(Grid(u.heap, sAt)).err)
  ELSE SvdErrOnHeap(st, vAt, sAt, u,
                    Magnitude(Unroll(Triu(Grid(u.heap, sAt), 1))),
                    Magnitude(Diagonal(Grid(u.heap, sAt)).val))

\* U = U.x(qr.Q) and S = qr.R after the second qr().
SvdAfterSecond(st, vAt, q2) ==
  IF q2.err # "none" THEN SvdThrown(st, q2.heap, q2.err)
  ELSE IF ~CanMultiplyFromLeft(Grid(q2.heap, st.U), Grid(q2.heap, q2.Q))
  THEN SvdThrown(st, q2.heap, "DimensionalityMismatchError")
  ELSE SvdMeasureOnHeap(st, vAt, q2.A,
         FreshMatrix(q2.heap, Multiply(Grid(q2.heap, st.U), Grid(q2.heap, q2.Q))))

\* qr = S.transpose().qr() for the S at sAt, v being the new V.
SvdSecondQr(st, sAt, v) ==
  SvdAfterSecond(st, v.at,
    QrOnHeap(FreshMatrix(v.heap, Transpose(Grid(v.heap, sAt))).heap,
             Len(v.heap.outers) + 1))

\* S = qr.R and V = V.x(qr.Q) after the first qr().
SvdAfterFirst(st, q1) ==
  IF q1.err # "none" THEN SvdThrown(st, q1.heap, q1.err)
  ELSE IF ~CanMultiplyFromLeft(Grid(q1.heap, st.V), Grid(q1.heap, q1.Q))
  THEN SvdThrown(st, q1.heap, "DimensionalityMismatchError")
  ELSE SvdSecondQr(st, q1.A,
         FreshMatrix(q1.heap, Multiply(Grid(q1.heap, st.V), Grid(q1.heap, q1.Q))))

\* One pass of the loop of svd(); U, S and V are references.  transpose()
\* reads this.elements[0].length, a TypeError on an S without rows.
SvdPassOnHeap(st) ==
  IF Len(Grid(st.heap, st.S)) = 0 THEN SvdThrown(st, st.heap, "TypeError")
  ELSE SvdAfterFirst(st,
         QrOnHeap(FreshMatrix(st.heap, Transpose(Grid(st.heap, st.S))).heap,
                  Len(st.heap.outers) + 1))

RECURSIVE SvdLoopOnHeap(_)
SvdLoopOnHeap(st) ==
  IF st.thrown # "none" \/ ~SvdMore(st) THEN st
  ELSE SvdLoopOnHeap(SvdPassOnHeap(st))

\* The locals of svd() before its loop: V = Matrix.I(this.rows),
\* S = this.transpose(), U = Matrix.I(this.cols).
SvdInitOnHeap(h, o) ==
  [heap |-> AllocGrid(AllocGrid(AllocGrid(h, I(Rows(Grid(h, o)))).heap,
                                Transpose(Grid(h, o))).heap,
                      I(Cols(Grid(h, o)))).heap,
   V |-> Len(h.outers) + 1, S |-> Len(h.outers) + 2, U |-> Len(h.outers) + 3,
   err |-> <<1, 0>>, i |-> 0, thrown |-> "none"]

\* The code after the loop: els = takeOwnership(V) is written in place,
\* and S is a new diagonal matrix; res is SvdResult of the values.
SvdWriteOnHeap(st, res) ==
  [heap |-> AllocGrid(WriteRows(st.heap, TakeOwnership(st.V), res.V), res.S).heap,
   U |-> st.U, S |-> Len(st.heap.outers) + 1, V |-> st.V, err |-> "none"]

SvdReturnOnHeap(st) ==
  IF st.thrown # "none"
  THEN [heap |-> st.heap, U |-> 0, S |-> 0, V |-> 0, err |-> st.thrown]
  ELSE SvdWriteOnHeap(st, SvdResult([U |-> Grid(st.heap, st.U),
                                     S |-> Grid(st.heap, st.S),
                                     V |-> Grid(st.heap, st.V)]))

\* svd().
SvdOnHeap(h, o) == SvdReturnOnHeap(SvdLoopOnHeap(SvdInitOnHeap(h, o)))

----------------------------------------------------------------------------
(* CircularLinkedList.  A node is named by its position in the sequence of *)
(* nodes made so far, and 0 is null (or the undefined prev and next of a   *)
(* node made by new Node(data)); l holds length, first and last.           *)

\* new Node(data, prev, next) is made after the nodes of h.
NewNode(h, data, prev, next) ==
  Append(h, [data |-> data, prev |-> prev, next |-> next])

\* n.next = v and n.prev = v.
SetNext(h, n, v) == [h EXCEPT ![n].next = v]

SetPrev(h, n, v) == [h EXCEPT ![n].prev = v]

\* append(data): on a list without first or last the node is alone and
\* its own neighbour; else it comes between last and first and is last.
ListAppend(h, l, data) ==
  LET node == Len(h) + 1
  IN  IF l.first = 0 \/ l.last = 0
      THEN [heap |-> NewNode(h, data, node, node),
            list |-> [length |-> l.length + 1, first |-> node, last |-> node]]
      ELSE [heap |-> SetPrev(SetNext(NewNode(h, data, l.last, l.first),
                                     l.last, node),
                             l.first, node),
            list |-> [l EXCEPT !.last = node, !.length = l.length + 1]]

\* prepend(data): append on a list without first or last; else the node
\* comes between last and first and is first.
ListPrepend(h, l, data) ==
  LET node == Len(h) + 1
  IN  IF l.first = 0 \/ l.last = 0 THEN ListAppend(h, l, data)
      ELSE [heap |-> SetNext(SetPrev(NewNode(h, data, l.last, l.first),
                                     l.first, node),
                             l.last, node),
            list |-> [l EXCEPT !.first = node, !.length = l.length + 1]]

\* insertAfter without the test for the last node.
InsertAfterLastKept(h, l, node, newNode) ==
  LET h1 == SetNext(SetPrev(h, newNode, node), newNode, h[node].next)
      h2 == IF h1[node].next # 0 THEN SetPrev(h1, h1[node].next, newNode) ELSE h1
  IN  [heap |-> SetNext(h2, node, newNode),
       list |-> [l EXCEPT !.length = l.length + 1]]

\* insertAfter(node, newNode).
InsertAfter(h, l, node, newNode) ==
  LET h1 == SetNext(SetPrev(h, newNode, node), newNode, h[node].next)
      h2 == IF h1[node].next # 0 THEN SetPrev(h1, h1[node].next, newNode) ELSE h1
  IN  [heap |-> SetNext(h2, node, newNode),
       list |-> [l EXCEPT !.last = IF h2[newNode].prev = l.last
                                   THEN newNode ELSE l.last,
                          !.length = l.length + 1]]

\* insertBefore(node, newNode).
InsertBefore(h, l, node, newNode) ==
  LET h1 == SetNext(SetPrev(h, newNode, h[node].prev), newNode, node)
      h2 == IF h1[node].prev # 0 THEN SetNext(h1, h1[node].prev, newNode) ELSE h1
  IN  [heap |-> SetPrev(h2, node, newNode),
       list |-> [l EXCEPT !.first = IF h2[newNode].next = l.first
                                    THEN newNode ELSE l.first,
                          !.length = l.length + 1]]

\* The nodes reached from node by i steps of next, node first.
RECURSIVE NodesFrom(_, _, _)
NodesFrom(h, node, i) ==
  IF i = 0 THEN <<>> ELSE <<node>> \o NodesFrom(h, h[node].next, i - 1)

\* toArray(): arr[i] = node.data for length nodes from first.
ListToArray(h, l) ==
  LET nodes == NodesFrom(h, l.first, l.length)
  IN  Array([i \in 1..l.length |-> h[nodes[i]].data])

\* The index at(index) starts its loop with: index %= this.length when
\* index >= this.length.
AtStart(l, index) == IF index >= l.length THEN index % l.length ELSE index

----------------------------------------------------------------------------
(* Inputs.                                                                 *)

\* All integer sequences of length n whose absolute values sum to at most w.
RECURSIVE WeightedSeqs(_, _)
WeightedSeqs(n, w) ==
  IF n = 0 THEN {<<>>}
  ELSE UNION {{<<v>> \o s : s \in WeightedSeqs(n - 1, w - a), v \in {a, -a}} :
                a \in 0..w}

\* new Matrix(rows) for an r x c grid of integers, read row by row from v.
Reshape(v, r, c) ==
  Array([i \in 1..r |-> Array([j \in 1..c |-> Num(v[(i - 1) * c + j])])])

\* <<rows, cols>> of the inputs of lu() and solve().
LUShapes == {<<1, 1>>, <<1, 2>>, <<2, 1>>, <<2, 2>>, <<3, 1>>, <<2, 3>>, <<3, 2>>}

\* The right-hand sides of solve() for a matrix with n rows.
RhsOf(n) == [1..n -> {Num(v) : v \in (-MaxRhs)..MaxRhs}]

NoLu == [A |-> <<>>, L |-> <<>>, P |-> <<>>, U |-> <<>>,
         k |-> 0, p |-> 0, maxIndex |-> 0, err |-> "none"]

NoOut == [op |-> "none"]

NoSvd == [U |-> <<>>, S |-> <<>>, V |-> <<>>, err |-> Zero, i |-> 0,
          exact |-> TRUE, thrown |-> "none"]

\* No array has been allocated.
NoHeap == [rows |-> <<>>, outers |-> <<>>]

\* new CircularLinkedList(): length = 0, first = null, last = null; a node
\* is named by its position in the heap and 0 is null.
NoList == [length |-> 0, first |-> 0, last |-> 0]

----------------------------------------------------------------------------
(* The LU specification: one matrix, on which lu() runs step by step or    *)
(* solve(b) runs as a whole.                                               *)

InitLU ==
  /\ \E sh \in LUShapes :
       \E v \in WeightedSeqs(sh[1] * sh[2], MaxWeightLU) :
         M = Reshape(v, sh[1], sh[2])
  /\ b = <<>>
  /\ pc = "idle"
  /\ lu = NoLu
  /\ svd = NoSvd
  /\ heap = NoHeap
  /\ mats = <<>>
  /\ list = NoList
  /\ out = NoOut

\* lu() is called: its locals are set up and the main loop is entered.
LuBegin ==
  /\ pc = "idle"
  /\ lu' = LuInit(M)
  /\ pc' = IF LuMore(LuInit(M)) THEN "pivot" ELSE "return"
  /\ UNCHANGED <<M, b, out, svd, heap, mats, list>>

\* partialPivot(k, p) of step k.
LuPivot ==
  /\ pc = "pivot"
  /\ lu' = PartialPivot(lu)
  /\ pc' = IF lu'.err # "none" THEN "threw" ELSE "elim"
  /\ out' = IF lu'.err # "none" THEN [op |-> "lu", err |-> lu'.err] ELSE out
  /\ UNCHANGED <<M, b, svd, heap, mats, list>>

\* The elimination of step k and the loop test.
LuEliminate ==
  /\ pc = "elim"
  /\ lu' = Eliminate(lu)
  /\ pc' = IF LuMore(lu') THEN "pivot" ELSE "return"
  /\ UNCHANGED <<M, b, out, svd, heap, mats, list>>

\* lu() returns {L, U, P}.
LuReturn ==
  /\ pc = "return"
  /\ out' = [op |-> "lu", err |-> "none", L |-> lu.L, U |-> lu.U, P |-> lu.P]
  /\ pc' = "done"
  /\ UNCHANGED <<M, b, lu, svd, heap, mats, list>>

\* solve(b) on a square matrix, b of length rows.
SolveCall ==
  /\ pc = "idle"
  /\ Rows(M) = Cols(M)
  /\ \E v \in RhsOf(Rows(M)) :
       /\ b' = v
       /\ out' = [op |-> "solve"] @@ Solve(M, v)
  /\ pc' = "done"
  /\ UNCHANGED <<M, lu, svd, heap, mats, list>>

NextLU == LuBegin \/ LuPivot \/ LuEliminate \/ LuReturn \/ SolveCall

SpecLU == InitLU /\ [][NextLU]_vars

----------------------------------------------------------------------------
(* The elimination specification: one matrix, on which toRightTriangular, *)
(* determinant and inverse are called.                                     *)

\* <<rows, cols>> of the inputs; <<0, 0>> is new Matrix([]).
ElimShapes ==
  {<<0, 0>>, <<1, 1>>, <<1, 2>>, <<2, 1>>, <<2, 2>>, <<1, 3>>, <<3, 1>>,
   <<2, 3>>, <<3, 2>>, <<3, 3>>}

\* The multiples c of the row additions "row i += c * row j".
RowMultiples == {-1, 2}

\* Row i of m replaced by row i + c * row j.
AddRowMultiple(m, i, j, c) ==
  [m EXCEPT
     ![i] = Array([p \in 1..Len(m[1]) |-> Add(m[i][p], Mul(Num(c), m[j][p]))])]

InitElim ==
  /\ \E sh \in ElimShapes :
       \E v \in WeightedSeqs(sh[1] * sh[2], MaxWeight) :
         M = Reshape(v, sh[1], sh[2])
  /\ b = <<>>
  /\ pc = "idle"
  /\ lu = NoLu
  /\ svd = NoSvd
  /\ heap = NoHeap
  /\ mats = <<>>
  /\ list = NoList
  /\ out = NoOut

\* toRightTriangular(); without rows, elements[0].length is a TypeError.
ToRightTriangularCall ==
  /\ pc = "idle"
  /\ out' = IF Len(M) = 0
            THEN [op |-> "toRightTriangular", err |-> "TypeError", val |-> <<>>]
            ELSE [op |-> "toRightTriangular", err |-> "none",
                  val |-> ToRightTriangular(M)]
  /\ pc' = "done"
  /\ UNCHANGED <<M, b, lu, svd, heap, mats, list>>

\* determinant(), on the input or on the input after a row addition.
DeterminantCall ==
  /\ pc \in {"idle", "transformed"}
  /\ out' = [op |-> "determinant",
             before |-> IF pc = "transformed" THEN out.before ELSE UNDEF]
            @@ Determinant(M)
  /\ pc' = "done"
  /\ UNCHANGED <<M, b, lu, svd, heap, mats, list>>

\* A caller that has the determinant adds c times row j to row i.
RowAddition ==
  /\ pc = "done"
  /\ out.op = "determinant"
  /\ out.err = "none"
  /\ out.before = UNDEF
  /\ \E i \in 1..Rows(M), j \in 1..Rows(M), c \in RowMultiples :
       /\ i # j
       /\ M' = AddRowMultiple(M, i, j, c)
  /\ out' = [op |-> "rowAddition", before |-> out.val]
  /\ pc' = "transformed"
  /\ UNCHANGED <<b, lu, svd, heap, mats, list>>

\* inverse().
InverseCall ==
  /\ pc = "idle"
  /\ out' = [op |-> "inverse"] @@ Inverse(M)
  /\ pc' = "done"
  /\ UNCHANGED <<M, b, lu, svd, heap, mats, list>>

\* inverse() of the matrix that inverse() returned.
InverseAgain ==
  /\ pc = "done"
  /\ out.op = "inverse"
  /\ out.err = "none"
  /\ out' = [op |-> "inverse.inverse"] @@ Inverse(out.val)
  /\ UNCHANGED <<M, b, pc, lu, svd, heap, mats, list>>

NextElim ==
  \/ ToRightTriangularCall
  \/ DeterminantCall
  \/ RowAddition
  \/ InverseCall
  \/ InverseAgain

SpecElim == InitElim /\ [][NextElim]_vars

----------------------------------------------------------------------------
(* The rank specification: one matrix, on which trace(), diagonal(),       *)
(* determinant() or rank() is called.                                      *)

\* A number smaller than Sylvester.precision: 1e-7.
Tiny == <<1, 10000000>>

\* The matrices with one zero entry of m replaced by Tiny.
WithTiny(m) ==
  {[m EXCEPT ![i][j] = Tiny] :
     <<i, j>> \in {ij \in (1..Rows(m)) \X (1..Cols(m)) : m[ij[1]][ij[2]] = Zero}}

InitRank ==
  /\ \E sh \in ElimShapes :
       \E v \in WeightedSeqs(sh[1] * sh[2], MaxWeightRank) :
         LET m == Reshape(v, sh[1], sh[2])
         IN  \/ M = m
             \/ sh[1] * sh[2] <= MaxTinyCells /\ M \in WithTiny(m)
  /\ b = <<>>
  /\ pc = "idle"
  /\ lu = NoLu
  /\ svd = NoSvd
  /\ heap = NoHeap
  /\ mats = <<>>
  /\ list = NoList
  /\ out = NoOut

\* trace().
TraceCall ==
  /\ pc = "idle"
  /\ out' = [op |-> "trace"] @@ Trace(M)
  /\ pc' = "done"
  /\ UNCHANGED <<M, b, lu, svd, heap, mats, list>>

\* diagonal().
DiagonalCall ==
  /\ pc = "idle"
  /\ out' = [op |-> "diagonal"] @@ Diagonal(M)
  /\ pc' = "done"
  /\ UNCHANGED <<M, b, lu, svd, heap, mats, list>>

\* determinant(), as a whole.
DeterminantOnce ==
  /\ pc = "idle"
  /\ out' = [op |-> "determinant"] @@ Determinant(M)
  /\ pc' = "done"
  /\ UNCHANGED <<M, b, lu, svd, heap, mats, list>>

\* rank(), with the default epsilon.
RankCall ==
  /\ pc = "idle"
  /\ out' = [op |-> "rank"] @@ Rank(M, Precision)
  /\ pc' = "done"
  /\ UNCHANGED <<M, b, lu, svd, heap, mats, list>>

NextRank ==
  \/ TraceCall
  \/ DiagonalCall
  \/ DeterminantOnce
  \/ RankCall

SpecRank == InitRank /\ [][NextRank]_vars

----------------------------------------------------------------------------
(* The substitution specification: a triangular matrix and a vector b, on  *)
(* which forwardSubstitute(b) or backSubstitute(b) is called.              *)

\* The lower-triangular n x n matrix whose entries on and below the
\* diagonal are read row by row from v.
LowerFrom(v, n) ==
  Array([i \in 1..n |->
           Array([j \in 1..n |->
                    IF j <= i THEN Num(v[((i * (i - 1)) \div 2) + j]) ELSE Zero])])

TriSizes == {1, 2, 3}

InitSub ==
  /\ \E n \in TriSizes :
       /\ \E v \in WeightedSeqs((n * (n + 1)) \div 2, MaxWeightTri) :
            \/ M = LowerFrom(v, n)
            \/ M = Transpose(LowerFrom(v, n))
       /\ \E v \in WeightedSeqs(n, MaxWeightRhs) :
            b = Array([i \in 1..n |-> Num(v[i])])
  /\ pc = "idle"
  /\ lu = NoLu
  /\ svd = NoSvd
  /\ heap = NoHeap
  /\ mats = <<>>
  /\ list = NoList
  /\ out = NoOut

\* forwardSubstitute(b).
ForwardSubstituteCall ==
  /\ pc = "idle"
  /\ out' = [op |-> "forwardSubstitute", val |-> ForwardSubstitute(M, b)]
  /\ pc' = "done"
  /\ UNCHANGED <<M, b, lu, svd, heap, mats, list>>

\* backSubstitute(b).
BackSubstituteCall ==
  /\ pc = "idle"
  /\ out' = [op |-> "backSubstitute", val |-> BackSubstitute(M, b)]
  /\ pc' = "done"
  /\ UNCHANGED <<M, b, lu, svd, heap, mats, list>>

NextSub ==
  \/ ForwardSubstituteCall
  \/ BackSubstituteCall

SpecSub == InitSub /\ [][NextSub]_vars

----------------------------------------------------------------------------
(* The QR specification: one matrix on which qr() is called.  The inputs   *)
(* are the matrices on which every magnitude qr() takes is rational.       *)

QrShapes ==
  {<<1, 1>>, <<1, 2>>, <<2, 1>>, <<2, 2>>, <<1, 3>>, <<3, 1>>, <<2, 3>>,
   <<3, 2>>, <<3, 3>>}

InitQR ==
  /\ \E sh \in QrShapes :
       \E v \in WeightedSeqs(sh[1] * sh[2], MaxWeightQR) :
         /\ M = Reshape(v, sh[1], sh[2])
         /\ Qr(M).err # "surd"
  /\ b = <<>>
  /\ pc = "idle"
  /\ lu = NoLu
  /\ svd = NoSvd
  /\ heap = NoHeap
  /\ mats = <<>>
  /\ list = NoList
  /\ out = NoOut

\* qr().
QrCall ==
  /\ pc = "idle"
  /\ out' = [op |-> "qr"] @@ Qr(M)
  /\ pc' = "done"
  /\ UNCHANGED <<M, b, lu, svd, heap, mats, list>>

NextQR == QrCall

SpecQR == InitQR /\ [][NextQR]_vars

----------------------------------------------------------------------------
(* The QR pass specification: qr() on the same inputs, one pass of its     *)
(* loop at a time; out holds the locals Q, A and k, and the Hk and Qk of   *)
(* the last pass with its k.                                               *)

\* Hk of the pass that st is about to make.
QrHouseholder(st) ==
  Householder(ReflectionVector(Col1(Slice(st.A, st.k, 0, st.k, st.k)),
                               Magnitude(Col1(Slice(st.A, st.k, 0, st.k, st.k)))))

\* The locals of qr() kept in out.
QrLocals(o) == [Q |-> o.Q, A |-> o.A, k |-> o.k, err |-> o.err]

\* qr() is called: Q = Matrix.I(m), A = this, k = 1.
QrBegin ==
  /\ pc = "idle"
  /\ out' = [op |-> "qr", Q |-> I(Rows(M)), A |-> M, k |-> 1, err |-> "none",
             passK |-> 0, Hk |-> <<>>, Qk |-> <<>>]
  /\ pc' = "qr"
  /\ UNCHANGED <<M, b, lu, svd, heap, mats, list>>

\* One pass of for (let k = 1; k < Math.min(m, n); k++); err is the error
\* thrown by a product of the pass.
QrPass ==
  /\ pc = "qr"
  /\ out.err = "none"
  /\ out.k < Min(Rows(M), Cols(M))
  /\ out' = [op |-> "qr", passK |-> out.k,
             Hk |-> QrHouseholder(QrLocals(out)),
             Qk |-> IdentSize(QrHouseholder(QrLocals(out)),
                              Rows(M), Cols(M), out.k)]
            @@ QrStep(QrLocals(out), Rows(M), Cols(M))
  /\ UNCHANGED <<M, b, pc, lu, svd, heap, mats, list>>

\* The loop is over: return {Q, R: A}.
QrReturn ==
  /\ pc = "qr"
  /\ out.err = "none"
  /\ out.k >= Min(Rows(M), Cols(M))
  /\ pc' = "done"
  /\ UNCHANGED <<M, b, lu, svd, heap, mats, list, out>>

\* A product of the pass has thrown.
QrThrow ==
  /\ pc = "qr"
  /\ out.err # "none"
  /\ pc' = "threw"
  /\ UNCHANGED <<M, b, lu, svd, heap, mats, list, out>>

NextQrPass ==
  \/ QrBegin
  \/ QrPass
  \/ QrReturn
  \/ QrThrow

SpecQrPass == InitQR /\ [][NextQrPass]_vars

----------------------------------------------------------------------------
(* The SVD specification: svd() on a square matrix, one pass of its loop   *)
(* at a time.  While every magnitude taken is rational the passes are      *)
(* computed; after the first that is not, U, S and V are unknown and the   *)
(* err of each pass is any of UnknownErrs.                                 *)

SvdSizes == {1, 2}

\* The values of err = e / f the model tells apart: not above the
\* threshold, above it, NaN and Infinity.
UnknownErrs == {Zero, One, NaN, <<1, 0>>}

InitSvd ==
  /\ \E n \in SvdSizes :
       \E v \in WeightedSeqs(n * n, MaxWeightSvd) : M = Reshape(v, n, n)
  /\ b = <<>>
  /\ pc = "idle"
  /\ lu = NoLu
  /\ svd = NoSvd
  /\ heap = NoHeap
  /\ mats = <<>>
  /\ list = NoList
  /\ out = NoOut

\* svd() is called: V, S, U, err and i are set up.
SvdBegin ==
  /\ pc = "idle"
  /\ svd' = SvdInit(M)
  /\ pc' = "loop"
  /\ UNCHANGED <<M, b, lu, out, heap, mats, list>>

\* The locals after one more pass; once they are unknown only i is kept.
SvdPass(st) == IF st.exact THEN SvdStep(st) ELSE [st EXCEPT !.i = st.i + 1]

\* The locals become nxt, with any of UnknownErrs for an unknown err; a
\* qr() that throws ends svd().
SvdAdvance(nxt) ==
  \/ /\ nxt.thrown # "none"
     /\ svd' = nxt
     /\ pc' = "threw"
     /\ out' = [op |-> "svd", err |-> nxt.thrown]
  \/ /\ nxt.thrown = "none"
     /\ nxt.exact
     /\ svd' = nxt
     /\ pc' = "loop"
     /\ out' = out
  \/ /\ nxt.thrown = "none"
     /\ ~nxt.exact
     /\ \E x \in UnknownErrs : svd' = [nxt EXCEPT !.err = x]
     /\ pc' = "loop"
     /\ out' = out

\* One pass of the while loop.
SvdIterate ==
  /\ pc = "loop"
  /\ SvdMore(svd)
  /\ SvdAdvance(SvdPass(svd))
  /\ UNCHANGED <<M, b, lu, heap, mats, list>>

\* The loop has ended: {U, S, V} is returned.
SvdReturn ==
  /\ pc = "loop"
  /\ ~SvdMore(svd)
  /\ out' = [op |-> "svd", err |-> "none", exact |-> svd.exact,
             i |-> svd.i, lastErr |-> svd.err]
            @@ (IF svd.exact THEN SvdResult(svd)
                ELSE [U |-> <<>>, S |-> <<>>, V |-> <<>>])
  /\ pc' = "done"
  /\ UNCHANGED <<M, b, lu, svd, heap, mats, list>>

NextSvd ==
  \/ SvdBegin
  \/ SvdIterate
  \/ SvdReturn

SpecSvd == InitSvd /\ [][NextSvd]_vars

----------------------------------------------------------------------------
(* The accessor specification: one matrix, possibly without rows, on which *)
(* e(i, j), row(i) or col(j) is called with an integer index.              *)

\* The largest sum of absolute values of the entries of an accessed matrix.
MaxWeightAccess == 2

\* The largest index passed to an accessor; the smallest is -1.
MaxIndex == 4

\* <<rows, cols>> of the accessed matrices; <<0, 0>> is new Matrix([]).
AccessShapes == {<<0, 0>>, <<1, 1>>, <<1, 2>>, <<2, 1>>, <<2, 2>>, <<2, 3>>, <<3, 2>>}

AccessIndices == (-1)..MaxIndex

InitAccess ==
  /\ \E sh \in AccessShapes :
       \E v \in WeightedSeqs(sh[1] * sh[2], MaxWeightAccess) :
         M = Reshape(v, sh[1], sh[2])
  /\ b = <<>>
  /\ pc = "idle"
  /\ lu = NoLu
  /\ svd = NoSvd
  /\ heap = NoHeap
  /\ mats = <<>>
  /\ list = NoList
  /\ out = NoOut

\* e(i, j).
ECall ==
  /\ pc = "idle"
  /\ \E i \in AccessIndices : \E j \in AccessIndices :
       out' = [op |-> "e", i |-> i, j |-> j, err |-> "none", val |-> E(M, i, j)]
  /\ pc' = "done"
  /\ UNCHANGED <<M, b, lu, svd, heap, mats, list>>

\* row(i).
RowCall ==
  /\ pc = "idle"
  /\ \E i \in AccessIndices : out' = [op |-> "row", i |-> i, j |-> 0] @@ Row(M, i)
  /\ pc' = "done"
  /\ UNCHANGED <<M, b, lu, svd, heap, mats, list>>

\* col(j).
ColCall ==
  /\ pc = "idle"
  /\ \E j \in AccessIndices : out' = [op |-> "col", i |-> 0, j |-> j] @@ Col(M, j)
  /\ pc' = "done"
  /\ UNCHANGED <<M, b, lu, svd, heap, mats, list>>

NextAccess ==
  \/ ECall
  \/ RowCall
  \/ ColCall

SpecAccess == InitAccess /\ [][NextAccess]_vars

----------------------------------------------------------------------------
(* The heap specification: a matrix built from a literal, then two method  *)
(* calls one after the other, each on any Matrix object made so far and,   *)
(* where the method takes one, with any of them as its argument.           *)

\* The largest sum of absolute values of the entries of the first matrix.
MaxWeightHeap == 2

\* <<rows, cols>> of the first matrix.
HeapShapes == {<<1, 1>>, <<1, 2>>, <<2, 1>>, <<2, 2>>}

\* The Matrix objects ms and one more for each outer array of addrs.
Register(ms, h, addrs) ==
  ms \o Array([i \in 1..Len(addrs) |-> NewMatrix(h, addrs[i])])

InitHeap ==
  /\ \E sh \in HeapShapes :
       \E v \in WeightedSeqs(sh[1] * sh[2], MaxWeightHeap) :
         /\ heap = AllocGrid(NoHeap, Reshape(v, sh[1], sh[2])).heap
         /\ mats = Register(<<>>, heap, <<1>>)
  /\ M = <<>>
  /\ b = <<>>
  /\ pc = "idle"
  /\ lu = NoLu
  /\ svd = NoSvd
  /\ list = NoList
  /\ out = NoOut

\* A call of op on the Matrix object r ends: res is the heap it leaves and
\* the error it throws, addrs are the arrays of the matrices it returns.
Returns(op, r, res, addrs) ==
  /\ pc \in {"idle", "once"}
  /\ res.err # "surd"
  /\ heap' = res.heap
  /\ mats' = IF res.err = "none" THEN Register(mats, res.heap, addrs) ELSE mats
  /\ out' = [op |-> op, r |-> r, err |-> res.err]
  /\ pc' = IF pc = "idle" THEN "once" ELSE "done"
  /\ UNCHANGED <<M, b, lu, svd, list>>

\* new Matrix(matrix): this.elements = input.elements.
CopyMatrix ==
  \E r \in 1..Len(mats) :
    Returns("new", r, [heap |-> heap, err |-> "none"], <<mats[r].elements>>)

\* subtract(matrix), by map.
SubtractMatrices ==
  \E r \in 1..Len(mats) : \E a \in 1..Len(mats) :
    LET x == Grid(heap, mats[r].elements)
        y == Grid(heap, mats[a].elements)
    IN  IF Rows(x) = Rows(y) /\ Cols(x) = Cols(y)
        THEN Returns("subtract", r, FreshMatrix(heap, Subtract(x, y)),
                     <<Len(heap.outers) + 1>>)
        ELSE Returns("subtract", r,
                     Thrown(heap, "DimensionalityMismatchError"), <<>>)

\* multiply(matrix), by mulOp.
MultiplyMatrices ==
  \E r \in 1..Len(mats) : \E a \in 1..Len(mats) :
    LET x == Grid(heap, mats[r].elements)
        y == Grid(heap, mats[a].elements)
    IN  IF CanMultiplyFromLeft(x, y)
        THEN Returns("multiply", r, FreshMatrix(heap, Multiply(x, y)),
                     <<Len(heap.outers) + 1>>)
        ELSE Returns("multiply", r,
                     Thrown(heap, "DimensionalityMismatchError"), <<>>)

\* transpose().
TransposeMatrix ==
  \E r \in 1..Len(mats) :
    Returns("transpose", r,
            FreshMatrix(heap, Transpose(Grid(heap, mats[r].elements))),
            <<Len(heap.outers) + 1>>)

\* toRightTriangular().
TriangularMatrix ==
  \E r \in 1..Len(mats) :
    Returns("toRightTriangular", r,
            ToRightTriangularOnHeap(heap, mats[r].elements),
            <<Len(heap.outers) + 1>>)

\* determinant(): a triangular form is made and dropped when the matrix
\* is square.
DeterminantOfMatrix ==
  \E r \in 1..Len(mats) :
    IF IsSquare(Grid(heap, mats[r].elements))
    THEN Returns("determinant", r,
                 ToRightTriangularOnHeap(heap, mats[r].elements), <<>>)
    ELSE Returns("determinant", r,
                 Thrown(heap, "DimensionalityMismatchError"), <<>>)

\* rank(): a triangular form is made and dropped.
RankOfMatrix ==
  \E r \in 1..Len(mats) :
    Returns("rank", r, ToRightTriangularOnHeap(heap, mats[r].elements), <<>>)

\* augment(matrix).
AugmentMatrices ==
  \E r \in 1..Len(mats) : \E a \in 1..Len(mats) :
    Returns("augment", r,
            AugmentOnHeap(heap, mats[r].elements, mats[a].elements),
            <<Len(heap.outers) + 1>>)

\* inverse().
InvertMatrix ==
  \E r \in 1..Len(mats) :
    Returns("inverse", r, InverseOnHeap(heap, mats[r].elements),
            <<Len(InverseOnHeap(heap, mats[r].elements).heap.outers)>>)

\* lu().
LuOfMatrix ==
  \E r \in 1..Len(mats) :
    LET f == LuOnHeap(heap, mats[r].elements)
    IN  Returns("lu", r, f, <<f.L, f.U, f.P>>)

\* solve(b): the arrays of lu() are the only ones written; the vectors
\* are built by push and returned.
SolveWithMatrix ==
  \E r \in 1..Len(mats) :
    Returns("solve", r, LuOnHeap(heap, mats[r].elements), <<>>)

\* qr().
QrOfMatrix ==
  \E r \in 1..Len(mats) :
    LET f == QrOnHeap(heap, mats[r].elements)
    IN  Returns("qr", r, f, <<f.Q, f.A>>)

\* svd().
SvdOfMatrix ==
  \E r \in 1..Len(mats) :
    LET f == SvdOnHeap(heap, mats[r].elements)
    IN  Returns("svd", r, f, <<f.U, f.S, f.V>>)

NextHeap ==
  \/ CopyMatrix
  \/ SubtractMatrices
  \/ MultiplyMatrices
  \/ TransposeMatrix
  \/ TriangularMatrix
  \/ DeterminantOfMatrix
  \/ RankOfMatrix
  \/ AugmentMatrices
  \/ InvertMatrix
  \/ LuOfMatrix
  \/ SolveWithMatrix
  \/ QrOfMatrix
  \/ SvdOfMatrix

SpecHeap == InitHeap /\ [][NextHeap]_vars

----------------------------------------------------------------------------
(* The indexOf specification: one vector, on which indexOf(x) runs one     *)
(* test of its loop at a time.                                             *)

\* The largest value of the loop index i that is followed; the loop of
\* indexOf itself puts no bound on i.
MaxScan == 6

\* The largest length of the vector.
MaxLenVector == 3

\* The elements of the vector and the x looked for.
VectorValues == {Num(v) : v \in (-1)..1}

InitIndexOf ==
  /\ \E n \in 0..MaxLenVector : b \in [1..n -> VectorValues]
  /\ M = <<>>
  /\ pc = "idle"
  /\ lu = NoLu
  /\ svd = NoSvd
  /\ heap = NoHeap
  /\ mats = <<>>
  /\ list = NoList
  /\ out = NoOut

\* indexOf(x) is called: let i = 0.
IndexOfCall ==
  /\ pc = "idle"
  /\ \E x \in VectorValues \cup {Num(2), NaN} :
       out' = [op |-> "indexOf", x |-> x, i |-> 0, ret |-> 0]
  /\ pc' = "loop"
  /\ UNCHANGED <<M, b, lu, svd, heap, mats, list>>

\* The loop test this.elements.length is false: return -1.
IndexOfExit ==
  /\ pc = "loop"
  /\ Len(b) = 0
  /\ out' = [out EXCEPT !.ret = -1]
  /\ pc' = "done"
  /\ UNCHANGED <<M, b, lu, svd, heap, mats, list>>

\* this.elements[i] === x: return i + 1.
IndexOfFound ==
  /\ pc = "loop"
  /\ Len(b) # 0
  /\ StrictEq(Elem(b, out.i + 1), out.x)
  /\ out' = [out EXCEPT !.ret = out.i + 1]
  /\ pc' = "done"
  /\ UNCHANGED <<M, b, lu, svd, heap, mats, list>>

\* this.elements[i] !== x: i++.
IndexOfNext ==
  /\ pc = "loop"
  /\ Len(b) # 0
  /\ ~StrictEq(Elem(b, out.i + 1), out.x)
  /\ out.i < MaxScan
  /\ out' = [out EXCEPT !.i = out.i + 1]
  /\ UNCHANGED <<M, b, pc, lu, svd, heap, mats, list>>

NextIndexOf ==
  \/ IndexOfCall
  \/ IndexOfExit
  \/ IndexOfFound
  \/ IndexOfNext

SpecIndexOf == InitIndexOf /\ [][NextIndexOf]_vars

\* The loop runs on for as long as it can.
FairSpecIndexOf == SpecIndexOf /\ WF_vars(NextIndexOf)

----------------------------------------------------------------------------
(* The list specification: a new CircularLinkedList, to which nodes are    *)
(* added by append, prepend, insertAfter and insertBefore; out.order keeps *)
(* the nodes in the order the insertions imply.  With the at() actions,    *)
(* at(index) runs one test of its loop at a time between the insertions.   *)

\* The largest length the list grows to.
MaxLength == 4

\* The largest index passed to at(); the smallest is -2.
MaxAt == 5

\* The number of steps a negative index is followed below 0; the loop of
\* at() itself puts no bound on them.
MaxDescent == 4

\* The data of the nodes.
ListData == {1, 2}

\* s with x put after position p.
SeqInsert(s, p, x) == SubSeq(s, 1, p) \o <<x>> \o SubSeq(s, p + 1, Len(s))

\* The position of x in s.
PositionIn(s, x) == CHOOSE i \in 1..Len(s) : s[i] = x

InitList ==
  /\ heap = <<>>
  /\ list = NoList
  /\ out = [op |-> "new", order |-> <<>>]
  /\ pc = "idle"
  /\ M = <<>>
  /\ b = <<>>
  /\ lu = NoLu
  /\ svd = NoSvd
  /\ mats = <<>>

\* A call that adds a node ends: res is the heap and the list it leaves.
Inserted(op, res, order) ==
  /\ heap' = res.heap
  /\ list' = res.list
  /\ out' = [op |-> op, order |-> order]
  /\ UNCHANGED <<M, b, pc, lu, svd, mats>>

\* append(data).
AppendCall ==
  /\ pc = "idle"
  /\ list.length < MaxLength
  /\ \E d \in ListData :
       Inserted("append", ListAppend(heap, list, d),
                Append(out.order, Len(heap) + 1))

\* prepend(data).
PrependCall ==
  /\ pc = "idle"
  /\ list.length < MaxLength
  /\ \E d \in ListData :
       Inserted("prepend", ListPrepend(heap, list, d),
                <<Len(heap) + 1>> \o out.order)

\* insertAfter(node, new Node(data)) for a node of the list.
InsertAfterCall ==
  /\ pc = "idle"
  /\ list.length < MaxLength
  /\ \E d \in ListData : \E node \in 1..Len(heap) :
       Inserted("insertAfter",
                InsertAfter(NewNode(heap, d, 0, 0), list, node, Len(heap) + 1),
                SeqInsert(out.order, PositionIn(out.order, node), Len(heap) + 1))

\* insertBefore(node, new Node(data)) for a node of the list.
InsertBeforeCall ==
  /\ pc = "idle"
  /\ list.length < MaxLength
  /\ \E d \in ListData : \E node \in 1..Len(heap) :
       Inserted("insertBefore",
                InsertBefore(NewNode(heap, d, 0, 0), list, node, Len(heap) + 1),
                SeqInsert(out.order, PositionIn(out.order, node) - 1, Len(heap) + 1))

NextList ==
  \/ AppendCall
  \/ PrependCall
  \/ InsertAfterCall
  \/ InsertBeforeCall

SpecList == InitList /\ [][NextList]_vars

\* at(index) is called: null on an empty list, else the loop starts at
\* first with the index reduced when it is at least the length.
AtCall ==
  /\ pc = "idle"
  /\ \E index \in (-2)..MaxAt :
       IF list.length = 0
       THEN /\ out' = [op |-> "at", order |-> out.order, arg |-> index,
                       index |-> index, node |-> 0, ret |-> 0]
            /\ pc' = "idle"
       ELSE /\ out' = [op |-> "at", order |-> out.order, arg |-> index,
                       index |-> AtStart(list, index), node |-> list.first,
                       ret |-> 0]
            /\ pc' = "at"
  /\ UNCHANGED <<M, b, lu, svd, heap, mats, list>>

\* while (index--) node = node.next, for an index that is not 0.
AtStep ==
  /\ pc = "at"
  /\ out.index # 0
  /\ out.index > -MaxDescent
  /\ out' = [out EXCEPT !.index = out.index - 1, !.node = heap[out.node].next]
  /\ UNCHANGED <<M, b, pc, lu, svd, heap, mats, list>>

\* The loop ends with index 0: return node.
AtReturn ==
  /\ pc = "at"
  /\ out.index = 0
  /\ out' = [out EXCEPT !.ret = out.node]
  /\ pc' = "idle"
  /\ UNCHANGED <<M, b, lu, svd, heap, mats, list>>

NextAt ==
  \/ NextList
  \/ AtCall
  \/ AtStep
  \/ AtReturn

SpecAt == InitList /\ [][NextAt]_vars

\* A call of at() that can go on does go on.
FairSpecAt == SpecAt /\ WF_vars(AtStep \/ AtReturn)

----------------------------------------------------------------------------
(* The solve specification: a square matrix, the matrix of the             *)
(* repository's solve test among them, on which solve(b) is called.        *)

\* The largest sum of absolute values of the entries of the other inputs.
MaxWeightSolve == 3

\* The matrix and the right-hand side of the test 'Matrix.solve'.
SolveTestMatrix == <<<<Num(2), Num(3)>>, <<Num(4), Num(4)>>>>

SolveTestVector == <<Num(2), Num(1)>>

InitSolve ==
  /\ \/ M = SolveTestMatrix
     \/ \E n \in 1..2 :
          \E v \in WeightedSeqs(n * n, MaxWeightSolve) : M = Reshape(v, n, n)
  /\ b = <<>>
  /\ pc = "idle"
  /\ lu = NoLu
  /\ svd = NoSvd
  /\ heap = NoHeap
  /\ mats = <<>>
  /\ list = NoList
  /\ out = NoOut

NextSolve == SolveCall

SpecSolve == InitSolve /\ [][NextSolve]_vars

----------------------------------------------------------------------------
(* The rectangular SVD specification: svd() is called on a matrix whose    *)
(* rows and cols differ, the 1 x 0 matrix new Matrix([[]]) among them.     *)

\* The largest sum of absolute values of the entries of an input.
MaxWeightRect == 2

RectShapes == {<<1, 0>>, <<1, 2>>, <<2, 1>>, <<1, 3>>, <<3, 1>>, <<2, 3>>, <<3, 2>>}

InitRect ==
  /\ \E sh \in RectShapes :
       \E v \in WeightedSeqs(sh[1] * sh[2], MaxWeightRect) :
         /\ heap = AllocGrid(NoHeap, Reshape(v, sh[1], sh[2])).heap
         /\ mats = Register(<<>>, heap, <<1>>)
  /\ M = <<>>
  /\ b = <<>>
  /\ pc = "idle"
  /\ lu = NoLu
  /\ svd = NoSvd
  /\ list = NoList
  /\ out = NoOut

NextRect == SvdOfMatrix

SpecRect == InitRect /\ [][NextRect]_vars

----------------------------------------------------------------------------
(* The elimination-pass specification: one matrix with at least one row,   *)
(* on which toRightTriangular() runs one pass of its outer loop at a time; *)
(* out.m is its working copy m and out.i the row of the next pass.         *)

\* The largest sum of absolute values of the entries of the input.
MaxWeightTriangular == 3

\* <<rows, cols>> of the inputs.
PassShapes ==
  {<<1, 1>>, <<1, 2>>, <<2, 1>>, <<2, 2>>, <<2, 3>>, <<3, 2>>, <<3, 3>>}

InitPass ==
  /\ \E sh \in PassShapes :
       \E v \in WeightedSeqs(sh[1] * sh[2], MaxWeightTriangular) :
         M = Reshape(v, sh[1], sh[2])
  /\ b = <<>>
  /\ pc = "idle"
  /\ lu = NoLu
  /\ svd = NoSvd
  /\ heap = NoHeap
  /\ mats = <<>>
  /\ list = NoList
  /\ out = NoOut

\* toRightTriangular() is called: m = this.toArray(), i = 0.
PassBegin ==
  /\ pc = "idle"
  /\ out' = [op |-> "toRightTriangular", m |-> M, i |-> 1]
  /\ pc' = "pass"
  /\ UNCHANGED <<M, b, lu, svd, heap, mats, list>>

\* One pass of for (i = 0; i < n; i++).
PassRow ==
  /\ pc = "pass"
  /\ out.i <= Len(out.m)
  /\ out' = [out EXCEPT !.m = TriStep(out.m, out.i), !.i = out.i + 1]
  /\ UNCHANGED <<M, b, pc, lu, svd, heap, mats, list>>

\* The loop is over: return new Matrix(m).
PassReturn ==
  /\ pc = "pass"
  /\ out.i > Len(out.m)
  /\ pc' = "done"
  /\ UNCHANGED <<M, b, lu, svd, heap, mats, list, out>>

NextPass ==
  \/ PassBegin
  \/ PassRow
  \/ PassReturn

SpecPass == InitPass /\ [][NextPass]_vars

----------------------------------------------------------------------------
(* Mathematical notions the properties are stated with.                    *)

\* m without row 1 and column j.
MinorOf(m, j) ==
  Array([i \in 1..(Len(m) - 1) |->
           Array([q \in 1..(Len(m) - 1) |-> m[i + 1][IF q < j THEN q ELSE q + 1]])])

\* The determinant by cofactor expansion along the first row.
RECURSIVE MathDet(_)
RECURSIVE CofactorSum(_, _, _)
CofactorSum(m, j, acc) ==
  IF j > Len(m) THEN acc
  ELSE CofactorSum(m, j + 1,
         Add(acc, Mul(Num(IF j % 2 = 1 THEN 1 ELSE -1),
                      Mul(m[1][j], MathDet(MinorOf(m, j))))))

MathDet(m) == IF Len(m) = 1 THEN m[1][1] ELSE CofactorSum(m, 1, Zero)

NonSingular(m) == Len(m) >= 1 /\ IsSquare(m) /\ MathDet(m) # Zero

\* An n x n matrix of 0s and 1s with exactly one 1 in each row and column.
IsPermutationMatrix(m, n) ==
  /\ Len(m) = n
  /\ \A i \in 1..n : Len(m[i]) = n
  /\ \A i \in 1..n : \A j \in 1..n : m[i][j] \in {Zero, One}
  /\ \A i \in 1..n : Cardinality({j \in 1..n : m[i][j] = One}) = 1
  /\ \A j \in 1..n : Cardinality({i \in 1..n : m[i][j] = One}) = 1

HasSize(m, r, c) == Len(m) = r /\ \A i \in 1..r : Len(m[i]) = c

\* Every entry strictly below the main diagonal is exactly 0.
UpperTriangular(m) ==
  \A i \in 1..Len(m) : \A j \in 1..Len(m[i]) : j < i => m[i][j] = Zero

\* 1s on the diagonal, 0s above it.
UnitLowerTriangular(m) ==
  \A i \in 1..Len(m) : \A j \in 1..Len(m[i]) :
    /\ (j = i => m[i][j] = One)
    /\ (j > i => m[i][j] = Zero)

LuReturned == pc = "done" /\ out.op = "lu"

----------------------------------------------------------------------------
(* The properties.                                                         *)

\* The elements of a set of naturals in increasing order.
Sorted(S) ==
  Array([k \in 1..Cardinality(S) |->
           CHOOSE x \in S : Cardinality({y \in S : y < x}) = k - 1])

\* The rows R and columns C of m, as a matrix.
SubMatrix(m, R, C) ==
  LET rs == Sorted(R)
      cs == Sorted(C)
  IN  Array([i \in 1..Len(rs) |-> Array([j \in 1..Len(cs) |-> m[rs[i]][cs[j]]])])

\* m has k linearly independent rows: some k x k minor is not 0.
HasRank(m, k) ==
  \/ k = 0
  \/ \E R \in SUBSET (1..Rows(m)) : \E C \in SUBSET (1..Cols(m)) :
       /\ Cardinality(R) = k
       /\ Cardinality(C) = k
       /\ MathDet(SubMatrix(m, R, C)) # Zero

\* The rank of m: the maximal number of linearly independent rows.
MathRank(m) ==
  CHOOSE k \in 0..Min(Rows(m), Cols(m)) :
    HasRank(m, k) /\ \A k2 \in (k + 1)..Min(Rows(m), Cols(m)) : ~HasRank(m, k2)

\* Every non-zero entry of m is larger than epsilon in absolute value.
EntriesAbove(m, epsilon) ==
  \A i \in 1..Rows(m) : \A j \in 1..Cols(m) :
    m[i][j] = Zero \/ Gt(MathAbs(m[i][j]), epsilon)

\* C1: for every matrix with at least one row and one column, the {L, U, P}
\* that lu() returns satisfies P x M = L x U.
C1_LuReconstructs ==
  LuReturned => Multiply(out.P, M) = Multiply(out.L, out.U)

\* C2: for every non-singular square A and every b of length A.rows,
\* x = A.solve(b) solves the system: A x x = b.
C2_SolveSolves ==
  (out.op = "solve" /\ NonSingular(M)) =>
    (out.err = "none" /\ MultiplyVec(M, out.x) = b)

\* C3: the P that lu() returns is a rows x rows permutation matrix: entries
\* 0 or 1, exactly one 1 in every row and in every column.
C3_PIsPermutation ==
  LuReturned => IsPermutationMatrix(out.P, Rows(M))

\* C4: at every elimination step k of lu(), after the pivot swap the entry
\* of row k in the pivot column has the largest absolute value among the
\* rows k..rows of the working matrix.
C4_PivotIsLargest ==
  pc = "elim" =>
    \A i \in lu.k..Rows(M) :
      ~Gt(MathAbs(lu.A[i][lu.p]), MathAbs(lu.A[lu.k][lu.p]))

\* C5: for every matrix, tall ones included, the {L, U, P} that lu() returns
\* satisfies P x (L x U) = M.
C5_PTimesLU ==
  LuReturned => Multiply(out.P, Multiply(out.L, out.U)) = M

\* C6: for every rows x cols input lu() returns L, rows x rows with 1s on
\* the diagonal and 0s above it, and U, rows x cols with 0s below the
\* diagonal.
C6_LuShape ==
  (out.op = "lu" /\ pc \in {"done", "threw"}) =>
    /\ out.err = "none"
    /\ HasSize(out.L, Rows(M), Rows(M))
    /\ UnitLowerTriangular(out.L)
    /\ HasSize(out.U, Rows(M), Cols(M))
    /\ UpperTriangular(out.U)

\* The part of C6 that the code keeps: whenever lu() does return, L and U
\* have that shape.
LuShapeWhenReturned ==
  LuReturned =>
    /\ HasSize(out.L, Rows(M), Rows(M))
    /\ UnitLowerTriangular(out.L)
    /\ HasSize(out.U, Rows(M), Cols(M))
    /\ UpperTriangular(out.U)

\* C7: for every square matrix with n >= 1, determinant() is the
\* mathematical determinant, and it is unchanged when a multiple of one row
\* is added to another row.
C7_DeterminantIsDet ==
  (out.op = "determinant" /\ Len(M) >= 1 /\ IsSquare(M)) =>
    /\ out.err = "none"
    /\ out.val = MathDet(M)
    /\ (out.before # UNDEF => out.val = out.before)

\* C7's case: the determinant of a 3 x 3 matrix with a zero in the first
\* pivot position, non-zero, taken again after a row addition.
C7_Witness ==
  /\ out.op = "determinant"
  /\ out.before # UNDEF
  /\ Len(M) = 3
  /\ IsSquare(M)
  /\ out.val # Zero
  /\ M[1][1] = Zero

C9_EmptyDeterminantIsOne ==
  (out.op = "determinant" /\ Len(M) = 0) =>
    (out.err = "none" /\ out.val = One)

\* C10: for every invertible square matrix, M x M.inverse() is the identity
\* and M.inverse().inverse() is M.
C10_InverseIsInverse ==
  /\ (out.op = "inverse" /\ NonSingular(M)) =>
       (out.err = "none" /\ Multiply(M, out.val) = I(Rows(M)))
  /\ out.op = "inverse.inverse" =>
       (out.err = "none" /\ out.val = M)

\* C10's case: the inverse of the inverse of a 3 x 3 matrix with a zero in
\* the first pivot position.
C10_Witness ==
  /\ out.op = "inverse.inverse"
  /\ Len(M) = 3
  /\ M[1][1] = Zero
  /\ \E i \in 1..3 : \E j \in 1..3 : M[i][j] \notin {Zero, One}

C12_NonSquareThrows ==
  (/\ out.op \in {"determinant", "trace", "diagonal"}
   /\ Rows(M) >= 1
   /\ Cols(M) >= 1
   /\ Rows(M) # Cols(M)) =>
    out.err = "DimensionalityMismatchError"

\* C12's case: trace() has been called on a matrix with more rows than
\* columns, whose last diagonal position does not exist.
C12_Witness ==
  /\ out.op = "trace"
  /\ Rows(M) = 3
  /\ Cols(M) = 2
  /\ M[1][1] # Zero
  /\ out.err = "DimensionalityMismatchError"

\* C13: rank() returns the rank of the matrix, the maximal number of
\* linearly independent rows, for every matrix whose non-zero entries are
\* larger than epsilon in absolute value, matrices whose leading columns
\* are entirely zero included.
C13_RankIsRank ==
  (out.op = "rank" /\ Len(M) >= 1 /\ EntriesAbove(M, Precision)) =>
    (out.err = "none" /\ out.val = MathRank(M))

LowerTriangular(m) ==
  \A i \in 1..Len(m) : \A j \in 1..Len(m[i]) : j > i => m[i][j] = Zero

NonZeroDiagonal(m) == \A i \in 1..Len(m) : m[i][i] # Zero

\* C19: for every square lower-triangular matrix L with non-zero diagonal
\* entries (unit or not) and every vector b of length L.rows,
\* x = L.forwardSubstitute(b) satisfies L x = b.
C19_ForwardSolves ==
  (/\ out.op = "forwardSubstitute"
   /\ LowerTriangular(M)
   /\ NonZeroDiagonal(M)) =>
    MultiplyVec(M, out.val) = b

\* C19's case: forwardSubstitute(b) on a 2 x 2 lower-triangular matrix with
\* a diagonal entry other than 1, an entry below the diagonal and a b whose
\* first element is not 0.
C19_Witness ==
  /\ out.op = "forwardSubstitute"
  /\ Len(M) = 2
  /\ M[1][1] \notin {Zero, One}
  /\ M[2][2] # Zero
  /\ M[2][1] # Zero
  /\ M[1][2] = Zero
  /\ b[1] # Zero
  /\ MultiplyVec(M, out.val) = b

\* C20: for every square upper-triangular matrix U with non-zero diagonal
\* entries and every vector b of length U.rows, x = U.backSubstitute(b)
\* satisfies U x = b, with x in natural order (x[1] first).
C20_BackSolves ==
  (/\ out.op = "backSubstitute"
   /\ UpperTriangular(M)
   /\ NonZeroDiagonal(M)) =>
    /\ Len(out.val) = Rows(M)
    /\ MultiplyVec(M, out.val) = b

\* C20's case: backSubstitute(b) on a 3 x 3 upper-triangular matrix with an
\* entry above the diagonal, whose solution is not the same read backwards.
C20_Witness ==
  /\ out.op = "backSubstitute"
  /\ Len(M) = 3
  /\ NonZeroDiagonal(M)
  /\ M[1][3] # Zero
  /\ M[3][1] = Zero
  /\ M[2][1] = Zero
  /\ M[3][2] = Zero
  /\ out.val # Reverse(out.val)
  /\ MultiplyVec(M, out.val) = b

\* C15: for every matrix M, the R returned by M.qr() is upper-triangular:
\* every entry strictly below the main diagonal is zero, for tall matrices
\* (rows > cols) and matrices with a single column too.
C15_RIsUpperTriangular ==
  (out.op = "qr" /\ out.err = "none") =>
    /\ HasSize(out.R, Rows(M), Cols(M))
    /\ UpperTriangular(out.R)

\* C16: for every matrix M, {Q, R} = M.qr() satisfies Q x R = M and
\* Qt x Q = I, matrices with an all-zero column below the diagonal (a zero
\* reflection vector) included.
C16_QrReconstructs ==
  out.op = "qr" =>
    /\ out.err = "none"
    /\ Multiply(out.Q, out.R) = M
    /\ Multiply(Transpose(out.Q), out.Q) = I(Rows(M))

\* C17: for every square matrix M (symmetric or not) on which the iteration
\* converges, {U, S, V} = M.svd() satisfies U x S x Vt = M.
C17_SvdReconstructs ==
  (/\ pc = "done"
   /\ out.op = "svd"
   /\ out.exact
   /\ out.lastErr = Zero) =>
    Multiply(Multiply(out.U, out.S), Transpose(out.V)) = M

----------------------------------------------------------------------------
(* Accessors.                                                              *)

\* C21: for integer indices, e(i, j) returns null and raises nothing when
\* i or j is out of range and element (i, j) otherwise; row(i) and col(j)
\* raise OutOfRangeError when the index is outside 1..rows, 1..cols and
\* return row i, column j otherwise.
C21_IndexHandling ==
  /\ out.op = "e" =>
       /\ out.err = "none"
       /\ out.val = IF out.i \in 1..Rows(M) /\ out.j \in 1..Cols(M)
                    THEN M[out.i][out.j]
                    ELSE NULL
  /\ out.op = "row" =>
       IF out.i \in 1..Rows(M)
       THEN out.err = "none" /\ out.val = M[out.i]
       ELSE out.err = "OutOfRangeError"
  /\ out.op = "col" =>
       IF out.j \in 1..Cols(M)
       THEN out.err = "none" /\ out.val = [i \in 1..Rows(M) |-> M[i][out.j]]
       ELSE out.err = "OutOfRangeError"

----------------------------------------------------------------------------
(* Immutability.                                                           *)

\* C22: after any sequence of method calls, every Matrix object holds the
\* elements, rows and cols it was built with: the arrays the methods write
\* in place are reachable from no Matrix that existed before the call.
C22_MatricesImmutable ==
  \A k \in 1..Len(mats) :
    /\ Grid(heap, mats[k].elements) = mats[k].was
    /\ mats[k].rows = Rows(mats[k].was)
    /\ mats[k].cols = Cols(mats[k].was)

\* C22's case: augment(), which writes rows in place, has returned for a
\* receiver that shares its arrays with another Matrix object, and the
\* result holds more columns than the receiver.
C22_Witness ==
  /\ pc = "done"
  /\ out.op = "augment"
  /\ out.err = "none"
  /\ \E k \in 1..Len(mats) :
       /\ k # out.r
       /\ mats[k].elements = mats[out.r].elements
  /\ mats[Len(mats)].cols = 2 * mats[out.r].cols
  /\ \E i \in 1..mats[out.r].rows : mats[out.r].was[i][1] # Zero

----------------------------------------------------------------------------
(* Vector.indexOf.                                                         *)

\* The 1-based position of the first element of v equal to x, or -1.
FirstIndex(v, x) ==
  IF \E i \in 1..Len(v) : StrictEq(v[i], x)
  THEN CHOOSE i \in 1..Len(v) :
         /\ StrictEq(v[i], x)
         /\ \A j \in 1..(i - 1) : ~StrictEq(v[j], x)
  ELSE -1

\* C23: for every vector and number x, indexOf(x) terminates, and it
\* returns the 1-based index of the first element equal to x, or -1 when
\* no element equals x.
C23_IndexOfReturns ==
  /\ (pc = "loop") ~> (pc = "done")
  /\ [](pc = "done" => out.ret = FirstIndex(b, out.x))

----------------------------------------------------------------------------
(* CircularLinkedList.                                                     *)

\* C24: at(index) terminates for every integer index; on a list of length
\* n > 0 it returns the node at position (index mod n) of toArray() order,
\* and on an empty list it returns null.
C24_AtIsCircular ==
  /\ (pc = "at") ~> (pc = "idle")
  /\ [](pc = "idle" /\ out.op = "at" =>
          out.ret = IF list.length = 0 THEN 0
                    ELSE NodesFrom(heap, list.first, list.length)
                           [(out.arg % list.length) + 1])

\* The list is a ring of length nodes: next from first visits length
\* distinct nodes and comes back to first, first.prev is last, last.next
\* is first, and n.next.prev is n for every node.
WellFormedRing(h, l) ==
  IF l.length = 0 THEN l.first = 0 /\ l.last = 0
  ELSE LET nodes == NodesFrom(h, l.first, l.length)
       IN  /\ Cardinality({nodes[i] : i \in 1..l.length}) = l.length
           /\ h[nodes[l.length]].next = l.first
           /\ nodes[l.length] = l.last
           /\ h[l.first].prev = l.last
           /\ h[l.last].next = l.first
           /\ \A i \in 1..l.length : h[h[nodes[i]].next].prev = nodes[i]

----------------------------------------------------------------------------
(* The passes of toRightTriangular.                                        *)

\* The rows below row i of m with a non-zero entry in column i.
NonZeroBelow(m, i) == {j \in (i + 1)..Len(m) : m[j][i] # Zero}

\* Row r of m less the multiple of the row piv that clears column i, the
\* columns up to i being 0.
Eliminated(m, r, piv, i) ==
  [p \in 1..Len(m[r]) |->
     IF p <= i THEN Zero
     ELSE Sub(m[r][p], Mul(piv[p], Div(m[r][i], piv[i])))]

\* The pass for row i took m, whose entry (i, i) is zero, to n: with j the
\* first lower row that is non-zero in column i, row i of n is row i plus
\* row j of m, every lower row (row j, still in its place, included) is
\* eliminated against that sum, and the rows above stay; without such a
\* row, n is m.
ZeroPivotPass(m, n, i) ==
  IF NonZeroBelow(m, i) = {} THEN n = m
  ELSE LET j == CHOOSE r \in NonZeroBelow(m, i) :
                  \A q \in NonZeroBelow(m, i) : r <= q
           sum == [p \in 1..Len(m[i]) |-> Add(m[i][p], m[j][p])]
       IN  /\ Len(n) = Len(m)
           /\ \A r \in 1..(i - 1) : n[r] = m[r]
           /\ n[i] = sum
           /\ \A r \in (i + 1)..Len(m) : n[r] = Eliminated(m, r, sum, i)

\* C25: in a pass of toRightTriangular() whose diagonal entry is zero, the
\* first lower row with a non-zero entry in that column is added to the
\* pivot row, no rows are exchanged, and the lower rows are eliminated
\* against the new pivot row; when there is no such row the pass changes
\* nothing.
C25_ZeroPivotAddsRow ==
  [][(/\ pc = "pass"
      /\ out.i <= Len(out.m)
      /\ At(out.m, out.i, out.i) = Zero)
     => ZeroPivotPass(out.m, out'.m, out.i)]_vars

\* C25's case: the first pass is over on a matrix whose first column is
\* zero in rows 1 and 2 and not in row 3, and whose row 1 is not zero:
\* row 1 is now the sum of rows 1 and 3.
C25_Witness ==
  /\ pc = "pass"
  /\ out.i = 2
  /\ Rows(M) = 3
  /\ M[1][1] = Zero
  /\ M[2][1] = Zero
  /\ M[3][1] # Zero
  /\ M[1][2] # Zero
  /\ M[2][2] # Zero
  /\ out.m[1] = [p \in 1..Cols(M) |-> Add(M[1][p], M[3][p])]
  /\ out.m[3][1] = Zero

----------------------------------------------------------------------------
(* The passes of qr().                                                     *)

\* C26: in every pass k of qr() on an m x n matrix, Qk is the m x m matrix
\* with the identity on its first k - 1 rows and columns, Hk in the block
\* below and right of them and zeros elsewhere, and the products Qk x A
\* and Q x Qk of the pass are defined.
C26_QkIsBlockDiagonal ==
  (out.op = "qr" /\ out.passK >= 1) =>
    /\ Len(out.Qk) = Rows(M)
    /\ \A i \in 1..Rows(M) : Len(out.Qk[i]) = Rows(M)
    /\ \A i \in 1..Rows(M) : \A j \in 1..Rows(M) :
         out.Qk[i][j] = IF i < out.passK \/ j < out.passK
                        THEN (IF i = j THEN One ELSE Zero)
                        ELSE out.Hk[i - out.passK + 1][j - out.passK + 1]
    /\ out.err = "none"

----------------------------------------------------------------------------
(* solve.                                                                  *)

----------------------------------------------------------------------------
(* lu(): the pivot row.                                                    *)

\* C28: in lu(), for every non-empty matrix, the row chosen by partialPivot
\* at step k lies in k..rows, no multiplier is computed by dividing by a
\* zero pivot, and lu() raises no error.
C28_LuPivotInRange ==
  /\ pc # "threw"
  /\ pc = "elim" =>
       /\ lu.maxIndex \in lu.k..Rows(M)
       /\ lu.k < Rows(M) => lu.A[lu.k][lu.p] # Zero

----------------------------------------------------------------------------
(* svd() on a matrix that is not square.                                   *)

\* C29: svd() returns no decomposition for a matrix with rows != cols: the
\* call raises DimensionalityMismatchError.
C29_RectangularSvdRaises ==
  (out.op = "svd" /\ mats[out.r].rows # mats[out.r].cols) =>
    out.err = "DimensionalityMismatchError"

====
